---- MODULE Spec2Model ----
(***************************************************************************)
(* Trend engine: the viral-score function calculate_viral_score            *)
(* (trend_engine/processors/viral_score.py) and run_pipeline               *)
(* (trend_engine/jobs/daily_pipeline.py): collect, score and filter, sort, *)
(* cultural trends, idea generation, saving, report and email.             *)
(*                                                                         *)
(* Python floats are IEEE-754 binary64.  The scores are rounded to one     *)
(* decimal, and which way a value such as 7.45 or 2.55 goes depends on the *)
(* rounding error of every float operation before it, so the model         *)
(* computes each float operation exactly as the hardware does: a float is  *)
(* a 53-bit mantissa and an exponent, and every operation rounds its exact *)
(* result to nearest, ties to even.  Mantissas do not fit a TLC integer    *)
(* and are kept as sequences of 14-bit limbs, least significant first.     *)
(***************************************************************************)
EXTENDS Integers, Sequences, FiniteSets, TLC

(***************************************************************************)
(* Natural numbers of any size: <<l1, ..., ln>> is the sum of              *)
(* l_i * BASE^(i-1), every l_i in 0..BASE-1, l_n # 0; zero is << >>.       *)
(***************************************************************************)
LimbBits == 14

BASE == 2^LimbBits

BLimb(a, i) == IF i <= Len(a) THEN a[i] ELSE 0

RECURSIVE BTrim(_)
BTrim(a) ==
    IF a = << >> THEN << >>
    ELSE IF a[Len(a)] # 0 THEN a
    ELSE BTrim(SubSeq(a, 1, Len(a) - 1))

RECURSIVE BFromInt(_)
BFromInt(n) == IF n = 0 THEN << >> ELSE <<n % BASE>> \o BFromInt(n \div BASE)

RECURSIVE BToInt(_)
BToInt(a) == IF a = << >> THEN 0 ELSE a[1] + BASE * BToInt(Tail(a))

RECURSIVE BAddFrom(_, _, _, _)
BAddFrom(a, b, i, carry) ==
    IF i > Len(a) /\ i > Len(b)
    THEN IF carry = 0 THEN << >> ELSE <<carry>>
    ELSE LET s == BLimb(a, i) + BLimb(b, i) + carry
         IN  <<s % BASE>> \o BAddFrom(a, b, i + 1, s \div BASE)

BAdd(a, b) == BAddFrom(a, b, 1, 0)

\* a - b for a >= b
RECURSIVE BSubFrom(_, _, _, _)
BSubFrom(a, b, i, borrow) ==
    IF i > Len(a) THEN << >>
    ELSE LET d == a[i] - BLimb(b, i) - borrow
         IN  IF d < 0 THEN <<d + BASE>> \o BSubFrom(a, b, i + 1, 1)
             ELSE <<d>> \o BSubFrom(a, b, i + 1, 0)

BSub(a, b) == BTrim(BSubFrom(a, b, 1, 0))

\* -1, 0, 1 as a < b, a = b, a > b
RECURSIVE BCmpFrom(_, _, _)
BCmpFrom(a, b, i) ==
    IF i = 0 THEN 0
    ELSE IF a[i] < b[i] THEN -1
    ELSE IF a[i] > b[i] THEN 1
    ELSE BCmpFrom(a, b, i - 1)

BCmp(a, b) ==
    IF Len(a) < Len(b) THEN -1
    ELSE IF Len(a) > Len(b) THEN 1
    ELSE BCmpFrom(a, b, Len(a))

\* a * k for 0 <= k < 2^17
RECURSIVE BMulSmallFrom(_, _, _, _)
BMulSmallFrom(a, k, i, carry) ==
    IF i > Len(a)
    THEN BFromInt(carry)
    ELSE LET p == a[i] * k + carry
         IN  <<p % BASE>> \o BMulSmallFrom(a, k, i + 1, p \div BASE)

BMulSmall(a, k) == IF k = 0 THEN << >> ELSE BMulSmallFrom(a, k, 1, 0)

BShlLimbs(a, n) == IF a = << >> THEN << >> ELSE [i \in 1..n |-> 0] \o a

RECURSIVE BMulFrom(_, _, _)
BMulFrom(a, b, i) ==
    IF i > Len(b) THEN << >>
    ELSE BAdd(BShlLimbs(BMulSmall(a, b[i]), i - 1), BMulFrom(a, b, i + 1))

BMul(a, b) == BMulFrom(a, b, 1)

\* quotient and remainder of a by n, 0 < n < 2^17, from limb i down
RECURSIVE BDivSmallFrom(_, _, _, _, _)
BDivSmallFrom(a, n, i, rem, q) ==
    IF i = 0 THEN [q |-> BTrim(q), r |-> rem]
    ELSE BDivSmallFrom(a, n, i - 1, (rem * BASE + a[i]) % n,
                       <<(rem * BASE + a[i]) \div n>> \o q)

BDivSmall(a, n) == BDivSmallFrom(a, n, Len(a), 0, << >>)

BShl(a, k) == BMulSmall(BShlLimbs(a, k \div LimbBits), 2^(k % LimbBits))

BAnyLimb(low) == \E i \in 1..Len(low) : low[i] # 0

BShrOf(low, d) == [q |-> d.q, lost |-> d.r # 0 \/ BAnyLimb(low)]

IntMin(a, b) == IF a <= b THEN a ELSE b

\* floor(a / 2^k), and whether any of the k bits dropped was set
BShr(a, k) ==
    BShrOf(SubSeq(a, 1, IntMin(k \div LimbBits, Len(a))),
           BDivSmall(SubSeq(a, k \div LimbBits + 1, Len(a)), 2^(k % LimbBits)))

RECURSIVE IntBitLen(_)
IntBitLen(n) == IF n = 0 THEN 0 ELSE 1 + IntBitLen(n \div 2)

BBitLen(a) ==
    IF a = << >> THEN 0 ELSE (Len(a) - 1) * LimbBits + IntBitLen(a[Len(a)])

BOdd(a) == a # << >> /\ a[1] % 2 = 1

\* q + 1/2 * [half] + (less than 1/2, positive iff more) to the nearest
\* natural number, ties to even
BNearest(q, half, more) ==
    IF half /\ (more \/ BOdd(q)) THEN BAdd(q, <<1>>) ELSE q

\* sh = BShr(N, s - 1): N / 2^s (plus a fraction, if sticky) to the nearest
\* natural number, ties to even
BRoundHalfEven(sh, sticky) ==
    BNearest(BShr(sh.q, 1).q, BOdd(sh.q), sh.lost \/ sticky)

(***************************************************************************)
(* Non-negative binary64 values: [m, e] is m * 2^e with m of exactly       *)
(* MantBits bits, or FZero.  Every value the scorer computes is finite,    *)
(* normal and non-negative (a negative 10 - rank * 0.4 is replaced by 0    *)
(* before it is used, a negative hours_since by 0.5).                      *)
(***************************************************************************)
MantBits == 53

FZero == [m |-> << >>, e |-> 0]

\* q * 2^e, q of MantBits or MantBits + 1 bits (a carry out of the rounding)
FNormal(q, e) ==
    IF BBitLen(q) > MantBits THEN [m |-> BShr(q, 1).q, e |-> e + 1]
    ELSE [m |-> q, e |-> e]

FRoundLen(N, e, sticky, L) ==
    IF N = << >> THEN FZero
    ELSE IF L <= MantBits
    THEN [m |-> BShl(N, MantBits - L), e |-> e - (MantBits - L)]
    ELSE FNormal(BRoundHalfEven(BShr(N, L - MantBits - 1), sticky),
                 e + L - MantBits)

\* The float nearest to (N + f) * 2^e, 0 <= f < 1 and sticky <=> f > 0:
\* round to nearest, ties to even.
FRound(N, e, sticky) == FRoundLen(N, e, sticky, BBitLen(N))

\* int -> float, 0 <= n < 2^31 (exact)
FFromInt(n) == FRound(BFromInt(n), 0, FALSE)

FIsZero(a) == a.m = << >>

\* -1, 0, 1 as a < b, a = b, a > b
FCmp(a, b) ==
    IF FIsZero(a) THEN (IF FIsZero(b) THEN 0 ELSE -1)
    ELSE IF FIsZero(b) THEN 1
    ELSE IF a.e < b.e THEN -1
    ELSE IF a.e > b.e THEN 1
    ELSE BCmp(a.m, b.m)

FLt(a, b) == FCmp(a, b) < 0

FLe(a, b) == FCmp(a, b) <= 0

FMul(a, b) ==
    IF FIsZero(a) \/ FIsZero(b) THEN FZero
    ELSE FRound(BMul(a.m, b.m), a.e + b.e, FALSE)

FAddAt(a, b, e) ==
    FRound(BAdd(BShl(a.m, a.e - e), BShl(b.m, b.e - e)), e, FALSE)

FAdd(a, b) ==
    IF FIsZero(a) THEN b
    ELSE IF FIsZero(b) THEN a
    ELSE FAddAt(a, b, IntMin(a.e, b.e))

FSubAt(a, b, e) ==
    FRound(BSub(BShl(a.m, a.e - e), BShl(b.m, b.e - e)), e, FALSE)

\* a - b for a >= b
FSub(a, b) == IF FIsZero(b) THEN a ELSE FSubAt(a, b, IntMin(a.e, b.e))

\* the number of trailing zero bits of a # 0
RECURSIVE IntTrailingZeros(_)
IntTrailingZeros(n) == IF n % 2 = 1 THEN 0 ELSE 1 + IntTrailingZeros(n \div 2)

RECURSIVE BTrailingZeros(_)
BTrailingZeros(a) ==
    IF a[1] # 0 THEN IntTrailingZeros(a[1])
    ELSE LimbBits + BTrailingZeros(Tail(a))

\* the quotient rest.q with the bit set
BDivTake(rest, bit) == [q |-> BAdd(rest.q, BShl(<<1>>, bit)), r |-> rest.r]

\* the bits hi..lo of the quotient of rem by b (rem < b * 2^(hi+1)) and the
\* remainder left, one bit a step, highest first
RECURSIVE BDivBits(_, _, _, _)
BDivBits(rem, b, hi, lo) ==
    IF hi < lo THEN [q |-> << >>, r |-> rem]
    ELSE IF BCmp(rem, BShl(b, hi)) >= 0
    THEN BDivTake(BDivBits(BSub(rem, BShl(b, hi)), b, hi - 1, lo), hi)
    ELSE BDivBits(rem, b, hi - 1, lo)

BDivJoin(q, d) == [q |-> BAdd(q, d.q), r |-> d.r]

\* the division of p.r continued over the bits hi..lo
BDivNext(p, b, hi, lo) == BDivJoin(p.q, BDivBits(p.r, b, hi, lo))

\* quotient and remainder of a by b, a < b * 2^(4 * LimbBits)
BDivLong(a, b) ==
    BDivNext(BDivNext(BDivNext(BDivBits(a, b, 4 * LimbBits - 1, 3 * LimbBits),
                               b, 3 * LimbBits - 1, 2 * LimbBits),
                      b, 2 * LimbBits - 1, LimbBits),
             b, LimbBits - 1, 0)

\* a.m * 2^sh / n, rounded once, for a divisor n * 2^e, n odd, n < 2^17
FDivSmallOf(d, e) == FRound(d.q, e, d.r # 0)

\* the same, n odd of any size
FDivLongOf(d, e) == FRound(d.q, e, d.r # << >>)

FDivLongAt(a, e, odd, sh) ==
    FDivLongOf(BDivLong(BShl(a.m, sh), odd), a.e - e - sh)

FDivOdd(a, e, odd) ==
    IF BBitLen(odd) <= 17
    THEN FDivSmallOf(BDivSmall(BShl(a.m, 4 * LimbBits), BToInt(odd)),
                     a.e - e - 4 * LimbBits)
    ELSE FDivLongAt(a, e, odd, BBitLen(odd) + 2)

FDivTz(a, b, tz) == FDivOdd(a, b.e + tz, BShr(b.m, tz).q)

\* a / b, b # 0: the exact quotient of the mantissas to 55 bits or more and
\* whether a remainder is left, rounded once.  With b = n * 2^k, n odd, the
\* quotient is a.m / n: by one limb at a time when n is below 2^17 (the
\* divisors hours_since, 100 and most view counts), bit by bit otherwise.
FDiv(a, b) == IF FIsZero(a) THEN FZero ELSE FDivTz(a, b, BTrailingZeros(b.m))

\* round(a, 1), in tenths: the exact value of a, times ten, to the nearest
\* integer, ties to even (CPython rounds the exact binary value correctly).
FRound1(a) ==
    IF FIsZero(a) THEN 0
    ELSE IF a.e >= 0 THEN BToInt(BShl(BMulSmall(a.m, 10), a.e))
    ELSE BToInt(BRoundHalfEven(BShr(BMulSmall(a.m, 10), (-a.e) - 1), FALSE))

\* a decimal literal d.t of the source (0.5, 0.4, ...): the float nearest to it
FTenths(t) == FDiv(FFromInt(t), FFromInt(10))

(***************************************************************************)
(* Python values.  A value is a record [t, v]: an int, a float (hours),    *)
(* a str (a sequence of one-character strings), None, or the mark of a     *)
(* key that the dict does not hold.  A post is a dict with the keys of     *)
(* PostKeys.                                                               *)
(***************************************************************************)
PyInt(n) == [t |-> "int", v |-> n]

PyStr(s) == [t |-> "str", v |-> s]

PyNone == [t |-> "None", v |-> 0]

Absent == [t |-> "absent", v |-> 0]

\* hours_since is a float: v counts units of 1 / HoursUnit hour, so that the
\* value is a float the model can name exactly (or the float nearest to it)
HoursUnit == 4

PyHours(q) == [t |-> "float", v |-> q]

\* dict.get(key, default)
Get(post, key, default) == IF post[key].t = "absent" THEN default ELSE post[key]

IsNumber(x) == x.t \in {"int", "float"}

UpperCase ==
    <<"A", "B", "C", "D", "E", "F", "G", "H", "I", "J", "K", "L", "M",
      "N", "O", "P", "Q", "R", "S", "T", "U", "V", "W", "X", "Y", "Z">>

LowerCase ==
    <<"a", "b", "c", "d", "e", "f", "g", "h", "i", "j", "k", "l", "m",
      "n", "o", "p", "q", "r", "s", "t", "u", "v", "w", "x", "y", "z">>

\* str.lower() on one character and on a string
CharLower(c) ==
    IF \E i \in 1..Len(UpperCase) : UpperCase[i] = c
    THEN LowerCase[CHOOSE i \in 1..Len(UpperCase) : UpperCase[i] = c]
    ELSE c

\* the string as it is, its case kept
StrSame(s) == s

StrLower(s) == [i \in 1..Len(s) |-> CharLower(s[i])]

\* word in s
IsSubstring(word, s) ==
    \/ word = << >>
    \/ \E i \in 1..(Len(s) - Len(word) + 1) :
          s[i] = word[1] /\ SubSeq(s, i, i + Len(word) - 1) = word

\* str(x) for the values a content field can hold
StrOf(x) == IF x.t = "str" THEN x.v ELSE <<"N", "o", "n", "e">>

relatability_keywords ==
    <<<<"h", "o", "m", "e">>,
      <<"f", "a", "m", "i", "l", "y">>,
      <<"s", "i", "m", "p", "l", "e">>,
      <<"d", "i", "n", "n", "e", "r">>,
      <<"k", "i", "d", "s">>,
      <<"h", "u", "s", "b", "a", "n", "d">>,
      <<"w", "i", "f", "e">>,
      <<"t", "i", "r", "e", "d">>,
      <<"c", "h", "e", "a", "p">>,
      <<"g", "r", "o", "c", "e", "r", "y">>>>

\* sum(1 for word in relatability_keywords if word in content)
KeywordMatches(content) ==
    Cardinality({k \in 1..Len(relatability_keywords) :
                    IsSubstring(relatability_keywords[k], content)})

(***************************************************************************)
(* calculate_viral_score(post).  The result records how the call ended     *)
(* and the locals of the function: raised (an exception left the call),    *)
(* score (the returned number in tenths: round(x, 1) has one decimal),     *)
(* path ("rank", "dead", "velocity": the return statement taken) and the   *)
(* three component scores of the velocity path.                            *)
(***************************************************************************)
F10 == FFromInt(10)

F100 == FFromInt(100)

\* rank * 0.5 in place of rank * 0.4
FPointFive == FTenths(5)

\* the literals 0.5, 0.4, 0.3, 0.2
FHalf == FTenths(5)

FPoint4 == FTenths(4)

FPoint3 == FTenths(3)

FPoint2 == FTenths(2)

FHoursUnit == FFromInt(HoursUnit)

FMin(a, b) == IF FLe(a, b) THEN a ELSE b

\* the float of a hours_since value
HoursFloat(h) == FDiv(FFromInt(h.v), FHoursUnit)

\* hours_since < 0.5
HoursBelowHalf(h) == 2 * h.v < HoursUnit

Raised(exc) ==
    [raised |-> TRUE, exc |-> exc, score |-> 0, path |-> "raise",
     views |-> 0, hours_since |-> FZero,
     velocity_score |-> FZero, engagement_score |-> FZero,
     relatability_score |-> 0]

Returned(score, path, views, hours, vs, es, rs) ==
    [raised |-> FALSE, exc |-> "", score |-> score, path |-> path,
     views |-> views, hours_since |-> hours,
     velocity_score |-> vs, engagement_score |-> es,
     relatability_score |-> rs]

\* max(0, 10 - scaled)
rank_score(scaled) == IF FLe(F10, scaled) THEN FZero ELSE FSub(F10, scaled)

\* line 35 from the rank: for a rank below 0, rank * 0.4 is -(-rank * 0.4)
\* and 10 - (-x) is 10 + x, which is above 0
rank_score_of(rank) ==
    IF rank < 0 THEN FAdd(F10, FMul(FFromInt(0 - rank), FPoint4))
    ELSE rank_score(FMul(FFromInt(rank), FPoint4))

\* sum(1 for word in relatability_keywords if word in content_lower)
relatability_bonus(post) ==
    KeywordMatches(StrLower(StrOf(Get(post, "content", PyStr(<< >>)))))

\* the cap of the bonus at 2 left out
RankPathUncapped(post, rank, hours_since) ==
    Returned(FRound1(FAdd(rank_score_of(rank),
                          FFromInt(relatability_bonus(post)))),
             "rank", 0, hours_since, FZero, FZero, 0)

\* the relatability bonus left out
RankPathWithoutBonus(post, rank, hours_since) ==
    Returned(FRound1(rank_score_of(rank)), "rank", 0, hours_since, FZero, FZero, 0)

\* lines 28-42: the score of a post from its rank in a feed
RankPath(post, rank, hours_since) ==
    Returned(FRound1(FAdd(rank_score_of(rank),
                          FFromInt(IntMin(relatability_bonus(post), 2)))),
             "rank", 0, hours_since, FZero, FZero, 0)

\* the operands of the division swapped
velocity_swapped(views, hours_since) == FDiv(hours_since, FFromInt(views))

\* line 48
velocity(views, hours_since) == FDiv(FFromInt(views), hours_since)

\* line 51
\* min(100 / velocity, 10): the operands of the division swapped
velocity_score_inverted(views, hours_since) ==
    FMin(FDiv(F100, velocity(views, hours_since)), F10)

velocity_score(views, hours_since) ==
    FMin(FDiv(velocity(views, hours_since), F100), F10)

\* line 54
engagement_rate(interactions, views) ==
    FDiv(FFromInt(interactions), FFromInt(views))

\* the cap of line 57 left out
engagement_score_uncapped(interactions, views) ==
    FMul(engagement_rate(interactions, views), F100)

\* line 57
engagement_score(interactions, views) ==
    FMin(FMul(engagement_rate(interactions, views), F100), F10)

\* lines 61-64
relatability_score(content) == IntMin(KeywordMatches(StrLower(content)) * 2, 10)

\* line 68
\* the weights of velocity_score and engagement_score swapped
final_score_swapped(vs, es, rs) ==
    FAdd(FAdd(FMul(vs, FPoint3), FMul(es, FHalf)), FMul(FFromInt(rs), FPoint2))

final_score(vs, es, rs) ==
    FAdd(FAdd(FMul(vs, FHalf), FMul(es, FPoint3)), FMul(FFromInt(rs), FPoint2))

Weighted(views, hours_since, vs, es, rs) ==
    Returned(FRound1(final_score(vs, es, rs)), "velocity", views, hours_since,
             vs, es, rs)

\* lines 47-70: velocity, engagement and relatability, weighted
VelocityPath(content, views, interactions, hours_since) ==
    IF content.t # "str" THEN Raised("AttributeError")
    ELSE Weighted(views, hours_since,
                  velocity_score(views, hours_since),
                  engagement_score(interactions, views),
                  relatability_score(content.v))

\* if rank: the test of the views forgotten
RankPathTakenAnyViews(views, rank) == rank.t = "int" /\ rank.v # 0

\* if views == 0 and rank is not None
RankPathTakenNotNone(views, rank) ==
    views.t = "int" /\ views.v = 0 /\ rank.t = "int"

\* if views == 0 and rank
RankPathTaken(views, rank) ==
    views.t = "int" /\ views.v = 0 /\ rank.t = "int" /\ rank.v # 0

\* if views == 0 and interactions > 0
ViewsEstimated(views, interactions) ==
    views.t = "int" /\ views.v = 0 /\ interactions > 0

\* the estimate of lines 23-24 left out
EstimatedViewsNever(views, interactions) == views

\* views = interactions * 50
EstimatedViewsTimesFifty(views, interactions) ==
    IF ViewsEstimated(views, interactions) THEN PyInt(interactions * 50) ELSE views

\* lines 23-24
\* views = interactions * 10
EstimatedViewsTimesTen(views, interactions) ==
    IF ViewsEstimated(views, interactions) THEN PyInt(interactions * 10) ELSE views

EstimatedViews(views, interactions) ==
    IF ViewsEstimated(views, interactions) THEN PyInt(interactions * 100)
    ELSE views

\* the clamp to 1.0 in place of 0.5
ClampedHoursToOne(hours) ==
    IF HoursBelowHalf(hours) THEN FFromInt(1) ELSE HoursFloat(hours)

\* lines 15-16
ClampedHours(hours) ==
    IF HoursBelowHalf(hours) THEN FHalf ELSE HoursFloat(hours)

\* a post without views scored by its keywords alone
ScoreViewsByKeywords(post, views, interactions, hours_since, rank) ==
    IF RankPathTaken(views, rank) THEN RankPath(post, rank.v, hours_since)
    ELSE IF views.t = "int" /\ views.v = 0
    THEN Returned(2 * relatability_score(StrOf(Get(post, "content", PyStr(<< >>)))),
                  "dead", 0, hours_since, FZero, FZero, 0)
    ELSE IF ~IsNumber(views) THEN Raised("TypeError")
    ELSE VelocityPath(Get(post, "content", PyStr(<< >>)), views.v,
                      interactions, hours_since)

\* lines 29-70, with the views of line 24
ScoreViews(post, views, interactions, hours_since, rank) ==
    IF RankPathTaken(views, rank) THEN RankPath(post, rank.v, hours_since)
    ELSE IF views.t = "int" /\ views.v = 0
    THEN Returned(0, "dead", 0, hours_since, FZero, FZero, 0)
    ELSE IF ~IsNumber(views) THEN Raised("TypeError")
    ELSE VelocityPath(Get(post, "content", PyStr(<< >>)), views.v,
                      interactions, hours_since)

\* lines 19-70 (hourly_interactions of line 26 is computed and never read)
\* rank = post.get("rank", 1): a post without rank read as ranked first
ScoreInteractionsRankOne(post, views, interactions, hours_since) ==
    ScoreViews(post, EstimatedViews(views, interactions), interactions,
               hours_since, Get(post, "rank", PyInt(1)))

ScoreInteractions(post, views, interactions, hours_since) ==
    ScoreViews(post, EstimatedViews(views, interactions), interactions,
               hours_since, Get(post, "rank", PyNone))

\* lines 10-70, the four fields read
ScoreFields(post, views, likes, comments, hours) ==
    IF ~IsNumber(hours) THEN Raised("TypeError")
    ELSE IF ~IsNumber(likes) \/ ~IsNumber(comments) THEN Raised("TypeError")
    ELSE ScoreInteractions(post, views, likes.v + comments.v,
                           ClampedHours(hours))

\* the scorer returning the viral_score a post already holds
calculate_viral_score_cached(post) ==
    IF post.viral_score.t = "float"
    THEN Returned(post.viral_score.v, "cached", 0, FZero, FZero, FZero, 0)
    ELSE ScoreFields(post, Get(post, "views", PyInt(0)), Get(post, "likes", PyInt(0)),
                     Get(post, "comments", PyInt(0)),
                     Get(post, "hours_since", PyHours(HoursUnit)))

calculate_viral_score(post) ==
    ScoreFields(post, Get(post, "views", PyInt(0)), Get(post, "likes", PyInt(0)),
                Get(post, "comments", PyInt(0)),
                Get(post, "hours_since", PyHours(HoursUnit)))

\* Texts of posts
EmptyText ==
    <<>>

HomeText ==
    <<"h", "o", "m", "e">>

HomeCookingUpper ==
    <<"H", "O", "M", "E", " ", "c", "o", "o", "k", "i", "n", "g">>

HomeyText ==
    <<"h", "o", "m", "e", "y">>

HomeSweetHomeText ==
    <<"H", "o", "m", "e", " ", "s", "w", "e", "e", "t", " ", "h", "o", "m",
    "e">>

TiredParentsText ==
    <<"e", "a", "s", "y", " ", "d", "i", "n", "n", "e", "r", " ", "f", "o",
    "r", " ", "t", "i", "r", "e", "d", " ", "p", "a", "r", "e", "n", "t",
    "s">>

SixKeywordText ==
    <<"c", "h", "e", "a", "p", " ", "s", "i", "m", "p", "l", "e", " ", "f",
    "a", "m", "i", "l", "y", " ", "d", "i", "n", "n", "e", "r", " ", "a",
    "t", " ", "h", "o", "m", "e", ",", " ", "k", "i", "d", "s">>

WellingtonText ==
    <<"G", "o", "r", "d", "o", "n", " ", "R", "a", "m", "s", "a", "y", " ",
    "m", "a", "k", "e", "s", " ", "a", " ", "c", "l", "a", "s", "s", "i",
    "c", " ", "B", "e", "e", "f", " ", "W", "e", "l", "l", "i", "n", "g",
    "t", "o", "n", " ", "f", "o", "r", " ", "h", "o", "m", "e", " ", "c",
    "h", "e", "f", "s", ".">>

OnionHackText ==
    <<"H", "o", "w", " ", "t", "o", " ", "c", "u", "t", " ", "o", "n", "i",
    "o", "n", "s", " ", "w", "i", "t", "h", "o", "u", "t", " ", "c", "r",
    "y", "i", "n", "g", " ", "-", " ", "e", "a", "s", "y", " ", "h", "a",
    "c", "k", ".">>

InstagramText ==
    <<"I", "n", "s", "t", "a", "g", "r", "a", "m", " ", "c", "o", "n", "t",
    "e", "n", "t", " ", "f", "r", "o", "m", " ", "@", "b", "u", "z", "z",
    "f", "e", "e", "d", "t", "a", "s", "t", "y">>

InstagramHomeText ==
    <<"I", "n", "s", "t", "a", "g", "r", "a", "m", " ", "c", "o", "n", "t",
    "e", "n", "t", " ", "f", "r", "o", "m", " ", "@", "h", "o", "m", "e",
    "c", "h", "e", "f">>

RedditPlainText ==
    <<"W", "e", "e", "k", "l", "y", " ", "t", "h", "r", "e", "a", "d", "\n",
    "<", "p", ">", "p", "o", "s", "t", "<", "/", "p", ">">>

RedditHomeText ==
    <<"M", "y", " ", "h", "o", "m", "e", " ", "p", "a", "n", "t", "r", "y",
    "\n", "<", "p", ">", "p", "o", "s", "t", "<", "/", "p", ">">>

(***************************************************************************)
(* Posts.  A post is a dict; the scorer reads six of its keys.             *)
(***************************************************************************)
MkPost(source, id, views, likes, comments, hours, rank, content) ==
    [source |-> source, id |-> id, views |-> views, likes |-> likes,
     comments |-> comments, hours_since |-> hours, rank |-> rank,
     content |-> content, viral_score |-> Absent]

\* Bounds of the inputs of the scorer: views and likes take the counts
\* 0..MaxCount beside the fixed larger values below, and at most MaxDefects
\* of the keys views, likes, comments, hours_since, content of one input are
\* missing or None.
MaxCount == 1

MaxDefects == 1

ViewCounts == 0..MaxCount \cup {100, 10000}

LikeCounts == 0..MaxCount \cup {1000}

CommentCounts == {0, 50}

\* hours_since: -1, 0, 0.25, 0.5, 2 and 24 hours
HourValues ==
    {-HoursUnit, 0, HoursUnit \div 4, HoursUnit \div 2, 2 * HoursUnit, 24 * HoursUnit}

RankValues == {Absent} \cup {PyInt(r) : r \in {0, 1, 10, 25, 26}}

ContentTexts ==
    {EmptyText, HomeText, HomeCookingUpper, HomeyText, HomeSweetHomeText,
     TiredParentsText, SixKeywordText}

\* posts whose keys are all present with a value of their type (rank apart,
\* which only the posts of a ranked feed hold)
FullPosts ==
    {MkPost(Absent, Absent, PyInt(v), PyInt(l), PyInt(c), PyHours(h), r, PyStr(t)) :
        v \in ViewCounts, l \in LikeCounts, c \in CommentCounts,
        h \in HourValues, r \in RankValues, t \in ContentTexts}

DefectKeys == {"views", "likes", "comments", "hours_since", "content"}

DefectSets == {ks \in SUBSET DefectKeys : Cardinality(ks) <= MaxDefects}

\* a defect names some keys and, for each, whether it is missing or None
Defects == UNION {[ks -> {"absent", "None"}] : ks \in DefectSets}

WithDefect(p, d) ==
    [k \in DOMAIN p |->
        IF k \in DOMAIN d
        THEN (IF d[k] = "absent" THEN Absent ELSE PyNone)
        ELSE p[k]]

\* the contents of the posts a defect is put into
DefectTexts == {EmptyText, HomeText, TiredParentsText}

\* the post of the specification's scenario: velocity 50 capped to 10, an
\* engagement of 5.5 %, two keywords
ScenarioPosts ==
    {MkPost(Absent, Absent, PyInt(10000), PyInt(500), PyInt(50),
            PyHours(2 * HoursUnit), Absent, PyStr(TiredParentsText))}

\* every full post, the scenario, and the posts of DefectTexts without rank
\* or ranked 1 or 25 with a defect
InputPosts ==
    FullPosts \cup ScenarioPosts \cup
    {WithDefect(p, d) :
        p \in {q \in FullPosts : /\ q.content.v \in DefectTexts
                                 /\ q.rank \in {Absent, PyInt(1), PyInt(25)}},
        d \in Defects}

\* every key the scorer reads holds a value of its declared type or is missing
WellTyped(p) ==
    /\ \A k \in {"views", "likes", "comments"} : p[k].t \in {"int", "absent"}
    /\ p.hours_since.t \in {"float", "absent"}
    /\ p.rank.t \in {"int", "absent"}
    /\ p.content.t \in {"str", "absent"}

(***************************************************************************)
(* What the collectors return.  The network is not modelled: a call        *)
(* returns one of the lists its code can build.                            *)
(***************************************************************************)
Src(name) == [t |-> "str", v |-> name]

\* get_youtube_shorts: counts and title as the extractor gives them (a count
\* or the title may be None), hours_since from the upload date
YouTubePosts ==
    {MkPost(Src("YouTube Shorts"), Src("yt_onion"), PyInt(10000), PyInt(1000),
            PyInt(0), PyHours(2 * HoursUnit), Absent, PyStr(OnionHackText)),
     MkPost(Src("YouTube Shorts"), Src("yt_dinner"), PyInt(10000), PyInt(500),
            PyInt(50), PyHours(2 * HoursUnit), Absent, PyStr(TiredParentsText)),
     MkPost(Src("YouTube Shorts"), Src("yt_hack"), PyInt(10000), PyInt(800),
            PyInt(0), PyHours(2 * HoursUnit), Absent, PyStr(OnionHackText)),
     MkPost(Src("YouTube Shorts"), Src("yt_flat"), PyInt(10000), PyNone,
            PyInt(0), PyHours(2 * HoursUnit), Absent, PyStr(OnionHackText))}

\* the two fixed posts get_tiktok_posts returns when the fetch fails
TikTokMockPosts ==
    <<MkPost(Src("TikTok"), Src("mock_id_1"), PyInt(5000000), PyInt(1200000),
             PyInt(4500), PyHours(12 * HoursUnit), Absent, PyStr(WellingtonText)),
      MkPost(Src("TikTok"), Src("mock_id_2"), PyInt(2100000), PyInt(850000),
             PyInt(2300), PyHours(5 * HoursUnit), Absent, PyStr(OnionHackText))>>

\* a post parsed from a fetched item list
TikTokPosts ==
    {MkPost(Src("TikTok"), Src("tt_1"), PyInt(1000), PyInt(100), PyInt(0),
            PyHours(24 * HoursUnit), Absent, PyStr(HomeCookingUpper))}

\* get_instagram_posts: no counts, 24 hours
InstagramPosts ==
    {MkPost(Src("Instagram"), Src("p/1"), PyInt(0), PyInt(0), PyInt(0),
            PyHours(24 * HoursUnit), Absent, PyStr(text)) :
        text \in {InstagramText, InstagramHomeText}}

\* get_reddit_posts: the entries of one subreddit's hot feed, rank = position
RedditTexts == {RedditPlainText, RedditHomeText}

RedditEntry(sub, i, text) ==
    MkPost(Src("Reddit (RSS)"), Src(sub), PyInt(0), PyInt(0), PyInt(0),
           PyHours(24 * HoursUnit), PyInt(i), PyStr(text))

\* The lists of the run, cut to what the model can explore: two of the 15
\* queries and hashtags, one of the 15 accounts, two of the 4 subreddits.
YOUTUBE_QUERIES == <<"home cooking shorts", "easy recipes">>

TIKTOK_HASHTAGS == <<"homecooking", "cookwithme">>

INSTAGRAM_ACCOUNTS == <<"buzzfeedtasty">>

SUBREDDITS == <<"HomeCooking", "MealPrepSunday">>

\* the most posts one run collects, and the most entries of one feed
MaxPosts == 5

MaxFeed == 1

\* VIRAL_THRESHOLD_SCORE = 7.5, in tenths
VIRAL_THRESHOLD_SCORE == 75

(***************************************************************************)
(* State.  post, result, phase: the argument of a call of                  *)
(* calculate_viral_score, its outcome, and whether the call was made.      *)
(* all_posts, viral_candidates: the lists of run_pipeline; pc: the step    *)
(* the run is at; idx: the index of the loop of that step.  db_client:     *)
(* whether the import of db gave a connected client; content_ideas_data:   *)
(* the answer of the idea generation; saved_count: the ideas saved;        *)
(* html_report: the report built; emails_sent: the calls of                *)
(* send_email_report; error: the exception that ended the run.             *)
(***************************************************************************)
VARIABLES post, result, phase, all_posts, viral_candidates, idx, pc,
          db_client, content_ideas_data, saved_count, html_report,
          emails_sent, error, posts_summary, analyze_calls,
          content_ideas, now, db_call, rpc, temp_downloads, candidates,
          processed

vars == <<post, result, phase, all_posts, viral_candidates, idx, pc,
          db_client, content_ideas_data, saved_count, html_report,
          emails_sent, error, posts_summary,
          analyze_calls, content_ideas, now, db_call, rpc, temp_downloads,
          candidates, processed>>

callVars == <<post, result, phase>>

ideaVars == <<db_client, content_ideas_data, saved_count, html_report, emails_sent>>

\* the content_ideas table, the clock and the last call of a Database method
dbVars == <<content_ideas, now, db_call>>

\* a Database method call: its argument, its return value and the number of
\* rows of content_ideas before it
DbCall(method, arg, ret, rows) ==
    [method |-> method, arg |-> arg, ret |-> ret, rows_before |-> rows]

NoCall == DbCall("", [title |-> [t |-> "absent", v |-> 0]], "", 0)

\* run_global_researcher: its position, the temp_downloads directory, the
\* candidates fetched and what became of each candidate processed
researchVars == <<rpc, temp_downloads, candidates, processed>>

\* a directory: whether it exists and the files in it
Directory(exists, files) == [exists |-> exists, files |-> files]

NoDirectory == Directory(FALSE, {})

\* what the collaborators of run_pipeline hold
sideVars == <<posts_summary, analyze_calls, dbVars, researchVars>>

\* content_ideas_data = {}
NoIdeas == [empty |-> TRUE, b2c |-> 0, b2b |-> 0]

NoError == [exc |-> "", at |-> ""]

NoPost == MkPost(Absent, Absent, Absent, Absent, Absent, Absent, Absent, Absent)

NoResult == Raised("")

\* the call with the score written into the post: post["viral_score"] = score
\* inside the scorer
CallAnnotating ==
    /\ phase = "input"
    /\ result' = calculate_viral_score(post)
    /\ post' = [post EXCEPT !.viral_score =
                   [t |-> "float", v |-> calculate_viral_score(post).score]]
    /\ phase' = "returned"
    /\ UNCHANGED <<all_posts, viral_candidates, idx, pc, ideaVars, sideVars, error>>

\* score = calculate_viral_score(post)
Call ==
    /\ phase = "input"
    /\ result' = calculate_viral_score(post)
    /\ phase' = "returned"
    /\ UNCHANGED <<post, all_posts, viral_candidates, idx, pc, ideaVars, sideVars, error>>

InitScore ==
    /\ post \in InputPosts
    /\ result = NoResult
    /\ phase = "input"
    /\ all_posts = << >>
    /\ viral_candidates = << >>
    /\ idx = 0
    /\ pc = "idle"
    /\ db_client = FALSE
    /\ content_ideas_data = NoIdeas
    /\ saved_count = 0
    /\ html_report = "none"
    /\ emails_sent = 0
    /\ error = NoError
    /\ posts_summary = << >>
    /\ analyze_calls = 0
    /\ content_ideas = << >>
    /\ now = 0
    /\ db_call = NoCall
    /\ rpc = "idle"
    /\ temp_downloads = NoDirectory
    /\ candidates = << >>
    /\ processed = << >>

NextScore == Call

SpecScore == InitScore /\ [][NextScore]_vars

(***************************************************************************)
(* calculate_viral_score on ranked posts: every rank up to MaxRank, ranks  *)
(* below 0, rank 0 and no rank, with and without views and likes.          *)
(***************************************************************************)
MaxRank == 26

\* ranks below 0
LowRanks == {0 - 2, 0 - 1}

\* texts with 0, 1, 2 and 6 keywords
RankedTexts == {EmptyText, HomeText, TiredParentsText, SixKeywordText}

RankedPosts ==
    {MkPost(Src("Reddit"), Absent, PyInt(v), PyInt(l), PyInt(0),
            PyHours(24 * HoursUnit), r, PyStr(t)) :
        v \in {0, 100}, l \in {0, 1},
        r \in {Absent} \cup {PyInt(k) : k \in LowRanks \cup 0..MaxRank},
        t \in RankedTexts}

InitRank ==
    /\ post \in RankedPosts
    /\ result = NoResult
    /\ phase = "input"
    /\ all_posts = << >>
    /\ viral_candidates = << >>
    /\ idx = 0
    /\ pc = "idle"
    /\ db_client = FALSE
    /\ content_ideas_data = NoIdeas
    /\ saved_count = 0
    /\ html_report = "none"
    /\ emails_sent = 0
    /\ error = NoError
    /\ posts_summary = << >>
    /\ analyze_calls = 0
    /\ content_ideas = << >>
    /\ now = 0
    /\ db_call = NoCall
    /\ rpc = "idle"
    /\ temp_downloads = NoDirectory
    /\ candidates = << >>
    /\ processed = << >>

NextRank == Call

SpecRank == InitRank /\ [][NextRank]_vars

(***************************************************************************)
(* run_pipeline, steps 1 and 2: collect, score and filter, sort.           *)
(***************************************************************************)
\* what one call of a collector can return
YouTubeResults == {<< >>} \cup {<<p>> : p \in YouTubePosts}

\* the ways the fetch of get_tiktok_posts ends without a parsed item: the
\* request raises, the status is not 200, the body is no JSON, it has no
\* itemList, the itemList is empty, or no item of it can be parsed
TikTokFailures ==
    {"request_error", "bad_status", "not_json", "no_item_list", "no_items",
     "unparsed_items"}

\* what the fetch of one hashtag gives: the posts parsed from the item list
TikTokFetch(outcome, posts) == [outcome |-> outcome, posts |-> posts]

TikTokFetches ==
    {TikTokFetch(f, << >>) : f \in TikTokFailures}
        \cup {TikTokFetch("items", <<p>>) : p \in TikTokPosts}

\* a fetch without posts returned as it is
get_tiktok_posts_or_none(fetch) == fetch.posts

\* get_tiktok_posts(hashtag): the parsed posts if there are any, else the
\* mock posts
get_tiktok_posts(fetch) ==
    IF fetch.posts # << >> THEN fetch.posts ELSE TikTokMockPosts

TikTokResults == {get_tiktok_posts(fetch) : fetch \in TikTokFetches}

InstagramResults == {<< >>} \cup {<<p>> : p \in InstagramPosts}

\* the entries of one subreddit: none (the fetch failed) or the first k of
\* its hot feed, ranked 1..k
RedditFeeds(sub) ==
    UNION {{[i \in 1..k |-> RedditEntry(sub, i, texts[i])] :
               texts \in [1..k -> RedditTexts]} : k \in 0..MaxFeed}

\* the lists of the subreddits n, n+1, ... one behind the other
RECURSIVE RedditResultsFrom(_)
RedditResultsFrom(n) ==
    IF n > Len(SUBREDDITS) THEN {<< >>}
    ELSE {feed \o rest : feed \in RedditFeeds(SUBREDDITS[n]),
                         rest \in RedditResultsFrom(n + 1)}

RedditResults == RedditResultsFrom(1)

\* all_posts.extend(posts) in the loop over a list of queries
Extend(step, queries, results, next) ==
    /\ pc = step
    /\ idx <= Len(queries)
    /\ \E posts \in results :
          /\ Len(all_posts) + Len(posts) <= MaxPosts
          /\ all_posts' = all_posts \o posts
    /\ IF idx = Len(queries)
       THEN pc' = next /\ idx' = 1
       ELSE pc' = pc /\ idx' = idx + 1
    /\ UNCHANGED <<viral_candidates, callVars, ideaVars, sideVars, error>>

ScrapeYouTube == Extend("youtube", YOUTUBE_QUERIES, YouTubeResults, "tiktok")

ScrapeTikTok == Extend("tiktok", TIKTOK_HASHTAGS, TikTokResults, "instagram")

ScrapeInstagram == Extend("instagram", INSTAGRAM_ACCOUNTS, InstagramResults, "reddit")

ScrapeReddit == Extend("reddit", <<"hot">>, RedditResults, "score")

\* the value of the key viral_score: a score in tenths
PyScore(score) == [t |-> "float", v |-> score]

\* score > VIRAL_THRESHOLD_SCORE
IsViralAbove(score) == score > VIRAL_THRESHOLD_SCORE

\* score >= VIRAL_THRESHOLD_SCORE
IsViral(score) == score >= VIRAL_THRESHOLD_SCORE

\* post["views"] = score: the score written under another key
ScoredInViews(p, score) == [p EXCEPT !.views = PyScore(score)]

\* post["viral_score"] = score
Scored(p, score) == [p EXCEPT !.viral_score = PyScore(score)]

\* lines 92-97 with the outcome r of the call of the scorer
ScoreWith(r) ==
    IF r.raised
    THEN /\ pc' = "crashed"
         /\ error' = [exc |-> r.exc, at |-> "score"]
         /\ UNCHANGED <<all_posts, viral_candidates, idx>>
    ELSE /\ all_posts' = [all_posts EXCEPT ![idx] = Scored(all_posts[idx], r.score)]
         /\ viral_candidates' =
               IF IsViral(r.score)
               THEN Append(viral_candidates, Scored(all_posts[idx], r.score))
               ELSE viral_candidates
         /\ idx' = idx + 1
         /\ pc' = pc
         /\ error' = error

\* one turn of the loop over all_posts; an exception of the scorer is not
\* caught and ends the run
ScorePost ==
    /\ pc = "score"
    /\ idx <= Len(all_posts)
    /\ ScoreWith(calculate_viral_score(all_posts[idx]))
    /\ UNCHANGED <<callVars, ideaVars, sideVars>>

\* x.get('viral_score', 0)
SortKey(x) == Get(x, "viral_score", PyScore(0)).v

\* x put before the elements of equal key: the order of equal keys reversed
RECURSIVE InsertBeforeEqual(_, _)
InsertBeforeEqual(sorted, x) ==
    IF sorted = << >> THEN <<x>>
    ELSE IF SortKey(Head(sorted)) > SortKey(x)
    THEN <<Head(sorted)>> \o InsertBeforeEqual(Tail(sorted), x)
    ELSE <<x>> \o sorted

\* x put behind every element of the sorted list whose key is not smaller
RECURSIVE InsertByScore(_, _)
InsertByScore(sorted, x) ==
    IF sorted = << >> THEN <<x>>
    ELSE IF SortKey(Head(sorted)) >= SortKey(x)
    THEN <<Head(sorted)>> \o InsertByScore(Tail(sorted), x)
    ELSE <<x>> \o sorted

\* list.sort(key=..., reverse=True): descending and stable
RECURSIVE SortByScore(_)
SortByScore(list) ==
    IF list = << >> THEN << >>
    ELSE InsertByScore(SortByScore(SubSeq(list, 1, Len(list) - 1)), list[Len(list)])

SortCandidates ==
    /\ pc = "score"
    /\ idx > Len(all_posts)
    /\ viral_candidates' = SortByScore(viral_candidates)
    /\ pc' = "ranked"
    /\ UNCHANGED <<all_posts, idx, callVars, ideaVars, sideVars, error>>

(***************************************************************************)
(* run_pipeline, steps 3 and 4: cultural trends, idea generation, saving,  *)
(* report and email.                                                       *)
(***************************************************************************)
\* the most ideas of one audience in an answer
MaxIdeas == 1

\* get_cultural_trends and the flattening into all_events: the events feed
\* the prompt and the calendar rows only, the run does not branch on them
CollectTrends ==
    /\ pc = "ranked"
    /\ pc' = "analyze"
    /\ UNCHANGED <<all_posts, viral_candidates, idx, callVars, ideaVars, sideVars, error>>

\* what analyze_trends_for_content_ideas can return: {} without an API key,
\* the parsed answer, or the dict of empty lists when the request or the
\* parsing fails
Ideas(b2c, b2b) == [empty |-> FALSE, b2c |-> b2c, b2b |-> b2b]

IdeaResults ==
    {NoIdeas} \cup {Ideas(c, b) : c \in 0..MaxIdeas, b \in 0..MaxIdeas}

\* viral_posts[:50]
SummaryLimit == 50

\* viral_posts[1:51]: the slice taken from the second post
posts_summary_from_second(viral_posts) ==
    SubSeq(viral_posts, 2, IntMin(Len(viral_posts), SummaryLimit + 1))

\* analyze_virality.py:22-29: the posts the summary of the prompt describes
posts_summary_of(viral_posts) ==
    SubSeq(viral_posts, 1, IntMin(Len(viral_posts), SummaryLimit))

\* analyze_trends_for_content_ideas(viral_candidates, all_events): without
\* an API key it returns {} before it builds the summary
AnalyzeWith(key) ==
    IF key
    THEN /\ posts_summary' = posts_summary_of(viral_candidates)
         /\ content_ideas_data' \in IdeaResults
    ELSE /\ posts_summary' = << >>
         /\ content_ideas_data' = NoIdeas

\* the analysis called whatever the candidate list holds
AnalyzeTrendsUngated ==
    /\ pc = "analyze"
    /\ \E key \in BOOLEAN : AnalyzeWith(key)
    /\ analyze_calls' = analyze_calls + 1
    /\ pc' = "save"
    /\ UNCHANGED <<dbVars, researchVars>>
    /\ UNCHANGED <<all_posts, viral_candidates, idx, callVars, db_client,
                   saved_count, html_report, emails_sent, error>>

\* lines 122-130: the analysis runs only when there is a candidate
AnalyzeTrends ==
    /\ pc = "analyze"
    /\ IF viral_candidates # << >>
       THEN /\ \E key \in BOOLEAN : AnalyzeWith(key)
            /\ analyze_calls' = analyze_calls + 1
            /\ pc' = "save"
       ELSE /\ content_ideas_data' = NoIdeas
            /\ posts_summary' = posts_summary
            /\ analyze_calls' = analyze_calls
            /\ pc' = "report"
    /\ UNCHANGED <<dbVars, researchVars>>
    /\ UNCHANGED <<all_posts, viral_candidates, idx, callVars, db_client,
                   saved_count, html_report, emails_sent, error>>

\* lines 133-178: with a database, each idea is saved or skipped
\* (save_content_idea returns None for a duplicate, an empty title or an
\* error); without one nothing is saved
SaveIdeas ==
    /\ pc = "save"
    /\ IF db_client
       THEN saved_count' \in 0..(content_ideas_data.b2c + content_ideas_data.b2b)
       ELSE saved_count' = saved_count
    /\ pc' = "report"
    /\ UNCHANGED <<all_posts, viral_candidates, idx, callVars, db_client,
                   content_ideas_data, html_report, emails_sent, error, sideVars>>

\* the names build_html_report assigns before it formats the page
\* (build_report.py:1-71), and the names the page template reads (:73-133)
ReportLocals ==
    {"content_ideas_data", "b2c_ideas", "b2b_ideas", "trending_themes",
     "key_insights", "b2c_html", "b2b_html", "themes_html", "i", "idea",
     "steps_html"}

ReportTemplateNames ==
    {"key_insights", "themes_html", "cultural_highlights_html", "b2c_html",
     "b2b_html"}

\* build_html_report(content_ideas_data): the page, or NameError for a name
\* of the template that was never assigned
build_html_report(data) ==
    IF ReportTemplateNames \subseteq ReportLocals
    THEN [raised |-> FALSE, exc |-> "", html |-> "built"]
    ELSE [raised |-> TRUE, exc |-> "NameError", html |-> "none"]

\* content_ideas_data and (b2c_content_ideas or b2b_content_ideas)
HasIdeas(data) == ~data.empty /\ (data.b2c > 0 \/ data.b2b > 0)

\* lines 183-188 with the outcome r of build_html_report: the exception is
\* not caught; send_email_report catches its own and returns False
ReportWith(r) ==
    IF r.raised
    THEN /\ pc' = "crashed"
         /\ error' = [exc |-> r.exc, at |-> "report"]
         /\ UNCHANGED <<html_report, emails_sent>>
    ELSE /\ html_report' = r.html
         /\ emails_sent' = emails_sent + 1
         /\ pc' = "done"
         /\ error' = error

\* lines 181-194: report and email when there is an idea, then the end
GenerateReport ==
    /\ pc = "report"
    /\ IF HasIdeas(content_ideas_data)
       THEN ReportWith(build_html_report(content_ideas_data))
       ELSE /\ pc' = "done"
            /\ UNCHANGED <<html_report, emails_sent, error>>
    /\ UNCHANGED <<all_posts, viral_candidates, idx, callVars, db_client,
                   content_ideas_data, saved_count, sideVars>>

Init ==
    /\ post = NoPost
    /\ result = NoResult
    /\ phase = "idle"
    /\ all_posts = << >>
    /\ viral_candidates = << >>
    /\ idx = 1
    /\ pc = "youtube"
    /\ db_client \in BOOLEAN
    /\ content_ideas_data = NoIdeas
    /\ saved_count = 0
    /\ html_report = "none"
    /\ emails_sent = 0
    /\ error = NoError
    /\ posts_summary = << >>
    /\ analyze_calls = 0
    /\ content_ideas = << >>
    /\ now = 0
    /\ db_call = NoCall
    /\ rpc = "idle"
    /\ temp_downloads = NoDirectory
    /\ candidates = << >>
    /\ processed = << >>

Next ==
    \/ ScrapeYouTube
    \/ ScrapeTikTok
    \/ ScrapeInstagram
    \/ ScrapeReddit
    \/ ScorePost
    \/ SortCandidates
    \/ CollectTrends
    \/ AnalyzeTrends
    \/ SaveIdeas
    \/ GenerateReport

Spec == Init /\ [][Next]_vars

(***************************************************************************)
(* analyze_trends_for_content_ideas on candidate lists of every length up  *)
(* to MaxCandidates: the run stands before the analysis with that many     *)
(* scored candidates.                                                      *)
(***************************************************************************)
MaxCandidates == 51

\* the i-th candidate: a post scored 8.4
Candidate(i) ==
    Scored(MkPost(Src("TikTok"), PyInt(i), PyInt(5000000), PyInt(1200000),
                  PyInt(4500), PyHours(12 * HoursUnit), Absent, PyStr(EmptyText)),
           84)

CandidateList(n) == [i \in 1..n |-> Candidate(i)]

InitAnalyze ==
    /\ post = NoPost
    /\ result = NoResult
    /\ phase = "idle"
    /\ \E n \in 0..MaxCandidates :
          /\ all_posts = CandidateList(n)
          /\ viral_candidates = CandidateList(n)
          /\ idx = n + 1
    /\ pc = "analyze"
    /\ db_client = FALSE
    /\ content_ideas_data = NoIdeas
    /\ saved_count = 0
    /\ html_report = "none"
    /\ emails_sent = 0
    /\ error = NoError
    /\ posts_summary = << >>
    /\ analyze_calls = 0
    /\ content_ideas = << >>
    /\ now = 0
    /\ db_call = NoCall
    /\ rpc = "idle"
    /\ temp_downloads = NoDirectory
    /\ candidates = << >>
    /\ processed = << >>

NextAnalyze == AnalyzeTrends

SpecAnalyze == InitAnalyze /\ [][NextAnalyze]_vars

\* run_pipeline is sequential code: past the sort, the step it stands at
\* is taken
SpecLive ==
    /\ Spec
    /\ WF_vars(CollectTrends)
    /\ WF_vars(AnalyzeTrends)
    /\ WF_vars(SaveIdeas)
    /\ WF_vars(GenerateReport)

(***************************************************************************)
(* Properties of calculate_viral_score, stated for SpecScore: every       *)
(* post of InputPosts is scored once.  The fields of a post as the         *)
(* properties read them (a missing key reads as its default):              *)
(***************************************************************************)
ViewsOf(p) == Get(p, "views", PyInt(0)).v

InteractionsOf(p) == Get(p, "likes", PyInt(0)).v + Get(p, "comments", PyInt(0)).v

RankOf(p) == Get(p, "rank", PyNone)

\* the number of relatability keywords in the lower-cased content
MatchesOf(p) == KeywordMatches(StrLower(Get(p, "content", PyStr(<< >>)).v))

\* hours_since clamped to at least 0.5
ClampedOf(p) ==
    IF 2 * Get(p, "hours_since", PyHours(HoursUnit)).v < HoursUnit THEN FTenths(5)
    ELSE FDiv(FFromInt(Get(p, "hours_since", PyHours(HoursUnit)).v),
              FFromInt(HoursUnit))

\* round(0.5*min((views/h)/100, 10) + 0.3*min(interactions/views*100, 10)
\*       + 0.2*min(2*m, 10), 1), in tenths
WeightedFormula(views, interactions, h, m) ==
    FRound1(FAdd(FAdd(FMul(FTenths(5),
                           FMin(FDiv(FDiv(FFromInt(views), h), FFromInt(100)),
                                FFromInt(10))),
                      FMul(FTenths(3),
                           FMin(FMul(FDiv(FFromInt(interactions), FFromInt(views)),
                                     FFromInt(100)),
                                FFromInt(10)))),
                 FMul(FTenths(2), FFromInt(IntMin(2 * m, 10)))))

\* C1: a well-typed post with views > 0, with or without a rank, scores
\* round(0.5*min((views/h)/100, 10) + 0.3*min((likes+comments)/views*100, 10)
\* + 0.2*min(2*m, 10), 1), h the clamped hours_since and m the number of
\* keywords in the lower-cased content.
C1_VelocityFormula ==
    (phase = "returned" /\ WellTyped(post) /\ ViewsOf(post) > 0)
        => /\ ~result.raised
           /\ result.score =
                 WeightedFormula(ViewsOf(post), InteractionsOf(post),
                                 ClampedOf(post), MatchesOf(post))

\* C1 witness: a post with 10000 views in 2 hours, 50 interactions, two
\* keywords and rank 1 has been scored 0.5*10 + 0.3*0.5 + 0.2*4 = 5.95,
\* rounded to 6.0 (the float sum is just above 5.95), not by its rank.
C1_Witness ==
    /\ phase = "returned"
    /\ WellTyped(post)
    /\ post.views = PyInt(10000)
    /\ post.rank = PyInt(1)
    /\ post.likes = PyInt(0)
    /\ post.comments = PyInt(50)
    /\ post.hours_since = PyHours(2 * HoursUnit)
    /\ post.content = PyStr(TiredParentsText)
    /\ result.path = "velocity"
    /\ result.score = 60

\* round(max(0, 10 - 0.4*rank) + min(b, 2), 1), in tenths
RankFormula(rank, b) ==
    FRound1(FAdd(IF FLe(FFromInt(10), FMul(FTenths(4), FFromInt(rank))) THEN FZero
                 ELSE FSub(FFromInt(10), FMul(FTenths(4), FFromInt(rank))),
                 FFromInt(IntMin(b, 2))))

\* C2: a post with views, likes and comments 0 and a positive rank scores
\* round(max(0, 10 - 0.4*rank) + min(b, 2), 1) on the rank path, the velocity
\* path not evaluated; the rank score is 9.6 for rank 1, 6.0 for rank 10 and
\* 0 from rank 25 on.
C2_RankFormula ==
    (/\ phase = "returned"
     /\ WellTyped(post)
     /\ ViewsOf(post) = 0
     /\ Get(post, "likes", PyInt(0)).v = 0
     /\ Get(post, "comments", PyInt(0)).v = 0
     /\ RankOf(post).t = "int"
     /\ RankOf(post).v > 0)
        => /\ ~result.raised
           /\ result.path = "rank"
           /\ result.score = RankFormula(RankOf(post).v, MatchesOf(post))
           /\ RankOf(post).v = 1
                 => result.score = 96 + 10 * IntMin(MatchesOf(post), 2)
           /\ RankOf(post).v = 10
                 => result.score = 60 + 10 * IntMin(MatchesOf(post), 2)
           /\ RankOf(post).v >= 25
                 => result.score = 10 * IntMin(MatchesOf(post), 2)

\* C2 witness: a post without counts, ranked 10, with two keywords, has been
\* scored 6.0 + 2 on the rank path.
C2_Witness ==
    /\ phase = "returned"
    /\ post.views = PyInt(0)
    /\ post.likes = PyInt(0)
    /\ post.comments = PyInt(0)
    /\ post.rank = PyInt(10)
    /\ post.content = PyStr(TiredParentsText)
    /\ result.path = "rank"
    /\ result.score = 80

\* the score of a call, or the exception it raised
Outcome(r) == [raised |-> r.raised, exc |-> r.exc, score |-> r.score]

\* p with no likes and no comments
WithoutInteractions(p) == [p EXCEPT !.likes = PyInt(0), !.comments = PyInt(0)]

\* C3 as stated: a post whose input views is 0 and whose rank is set scores
\* round(max(0, 10 - 0.4*rank) + min(bonus, 2), 1), whatever its likes and
\* comments: the same as the post without them.
C3_RankPathIgnoresInteractions ==
    (/\ phase = "returned"
     /\ WellTyped(post)
     /\ ViewsOf(post) = 0
     /\ RankOf(post).t = "int"
     /\ RankOf(post).v > 0)
        => /\ result.score = RankFormula(RankOf(post).v, MatchesOf(post))
           /\ Outcome(result) = Outcome(calculate_viral_score(WithoutInteractions(post)))

\* C3, amended: a post whose input views is 0 and whose rank is set takes the
\* rank path exactly when its likes + comments is 0 and its rank is not 0,
\* and then scores round(max(0, 10 - 0.4*rank) + min(bonus, 2), 1); with
\* likes + comments > 0 the views are estimated first (line 23) and the post
\* is scored on the velocity path with views = (likes + comments) * 100.
C3_RankPathOnlyWithoutInteractions ==
    (/\ phase = "returned"
     /\ WellTyped(post)
     /\ ViewsOf(post) = 0
     /\ RankOf(post).t = "int")
        => /\ ~result.raised
           /\ result.path = "rank" <=> (InteractionsOf(post) = 0 /\ RankOf(post).v # 0)
           /\ result.path = "rank"
                 => result.score = RankFormula(RankOf(post).v, MatchesOf(post))
           /\ InteractionsOf(post) > 0
                 => /\ result.path = "velocity"
                    /\ result.views = InteractionsOf(post) * 100
                    /\ result.score =
                          WeightedFormula(InteractionsOf(post) * 100,
                                          InteractionsOf(post), ClampedOf(post),
                                          MatchesOf(post))

\* C3 witness: a post with views 0, rank 1 and 1000 likes has been scored on
\* the velocity path from 100000 estimated views, not by its rank (9.6).
C3_Witness ==
    /\ phase = "returned"
    /\ post.views = PyInt(0)
    /\ post.rank = PyInt(1)
    /\ post.likes = PyInt(1000)
    /\ post.comments = PyInt(0)
    /\ post.hours_since = PyHours(24 * HoursUnit)
    /\ post.content = PyStr(EmptyText)
    /\ result.path = "velocity"
    /\ result.views = 100000
    /\ result.score # 96

\* C4: calculate_viral_score never raises: a missing key, or a key of views,
\* likes, comments, hours_since or content that holds None, reads as its
\* default, and a number is returned.
C4_NeverRaises == phase = "returned" => ~result.raised

\* C4 witness: the call on a post whose likes is None (as the YouTube
\* collector can return it) and whose other keys are sound has raised
\* TypeError at likes + comments.
C4_Witness ==
    /\ phase = "returned"
    /\ post.likes = PyNone
    /\ post.views = PyInt(100)
    /\ post.comments = PyInt(0)
    /\ post.hours_since = PyHours(2 * HoursUnit)
    /\ post.content = PyStr(HomeText)
    /\ result.raised
    /\ result.exc = "TypeError"

\* p with the views v
WithViews(p, v) == [p EXCEPT !.views = PyInt(v)]

\* C5 as stated: of two posts that differ only in views, the one with the
\* larger views scores at least as much.
C5_MonotoneInViews ==
    (phase = "returned" /\ WellTyped(post) /\ post.views.t = "int")
        => \A v \in ViewCounts :
              v > post.views.v
                  => calculate_viral_score(WithViews(post, v)).score >= result.score

\* C5, amended: of two posts that differ only in views, both without likes
\* and comments and the first not scored by its rank (views > 0, or no rank
\* or rank 0), the one with the larger views scores at least as much.
C5_MonotoneWithoutInteractions ==
    (/\ phase = "returned"
     /\ WellTyped(post)
     /\ post.views.t = "int"
     /\ InteractionsOf(post) = 0
     /\ result.path # "rank")
        => \A v \in ViewCounts :
              v > post.views.v
                  => /\ ~calculate_viral_score(WithViews(post, v)).raised
                     /\ calculate_viral_score(WithViews(post, v)).score >= result.score

\* C5 witness: a post with 100 views in half an hour and no interactions has
\* been scored 1.0, below the 5.0 of the same post with 10000 views.
C5_Witness ==
    /\ phase = "returned"
    /\ post.views = PyInt(100)
    /\ post.likes = PyInt(0)
    /\ post.comments = PyInt(0)
    /\ post.hours_since = PyHours(HoursUnit \div 2)
    /\ post.rank = Absent
    /\ post.content = PyStr(EmptyText)
    /\ result.score = 10
    /\ calculate_viral_score(WithViews(post, 10000)).score = 50

(***************************************************************************)
(* Properties of run_pipeline, stated for Spec.                            *)
(***************************************************************************)
\* the posts of all_posts the scoring loop has handled
ScoredCount == IF pc = "score" THEN idx - 1 ELSE Len(all_posts)

\* the positions of the scored posts whose viral_score is >= 7.5
AtThreshold ==
    {i \in 1..ScoredCount : all_posts[i].viral_score.v >= VIRAL_THRESHOLD_SCORE}

\* C6: in and after the score-and-filter step, a scored post is in
\* viral_candidates if and only if its viral_score is >= 7.5, each such post
\* once: 7.5 itself is in, nothing below it is in, nothing at or above it is
\* left out.
C6_CandidateIffThreshold ==
    pc \in {"score", "ranked"}
        => /\ \A i \in 1..ScoredCount :
                 /\ all_posts[i].viral_score.t = "float"
                 /\ (\E j \in 1..Len(viral_candidates) :
                        viral_candidates[j] = all_posts[i]) <=> i \in AtThreshold
           /\ \A j \in 1..Len(viral_candidates) :
                 /\ viral_candidates[j].viral_score.v >= VIRAL_THRESHOLD_SCORE
                 /\ \E i \in AtThreshold : all_posts[i] = viral_candidates[j]
           /\ Len(viral_candidates) = Cardinality(AtThreshold)

\* C6 witness: the run has scored a post at exactly 7.5 and one at 7.4; the
\* first is a candidate, the second is not.
C6_Witness ==
    /\ pc = "ranked"
    /\ \E i \in 1..Len(all_posts) :
          /\ all_posts[i].id = Src("yt_dinner")
          /\ all_posts[i].viral_score = PyScore(75)
          /\ \E j \in 1..Len(viral_candidates) : viral_candidates[j] = all_posts[i]
    /\ \E i \in 1..Len(all_posts) :
          /\ all_posts[i].id = Src("yt_hack")
          /\ all_posts[i].viral_score = PyScore(74)
          /\ \A j \in 1..Len(viral_candidates) : viral_candidates[j] # all_posts[i]

\* the scores of a list of posts
ScoresOf(list) == [i \in 1..Len(list) |-> list[i].viral_score.v]

\* the posts of a list with the score s, in the order of the list
WithScore(list, s) ==
    LET Has(p) == p.viral_score.v = s
    IN  SelectSeq(list, Has)

\* C7: the candidate list run_pipeline produces is sorted by viral_score,
\* highest first, and candidates of equal score keep the order in which they
\* were collected.
C7_SortedStable ==
    pc = "ranked"
        => /\ \A i \in 1..(Len(viral_candidates) - 1) :
                 viral_candidates[i].viral_score.v
                     >= viral_candidates[i + 1].viral_score.v
           /\ \A s \in {viral_candidates[i].viral_score.v :
                           i \in 1..Len(viral_candidates)} :
                 WithScore(viral_candidates, s) = WithScore(all_posts, s)

\* C7 witness: posts collected as A (8.0), B (8.4), C (8.0) have been sorted
\* to B, A, C.
C7_Witness ==
    /\ pc = "ranked"
    /\ Len(all_posts) >= 3
    /\ SubSeq(ScoresOf(all_posts), 1, 3) = <<80, 84, 80>>
    /\ viral_candidates = <<all_posts[2], all_posts[1], all_posts[3]>>
    /\ all_posts[1] # all_posts[3]

(***************************************************************************)
(* Ranges of the score and of its components, stated for SpecScore.       *)
(***************************************************************************)
\* C8: for a post with non-negative integer views, likes and comments, a
\* score of the velocity path lies in [0, 10]; a score above 10 comes from
\* the rank path only, where for rank >= 1 it lies in [0, 11.6]; the post
\* {views 0, likes 0, comments 0, rank 1, content "home"} scores 10.6.
C8_ScoreRange ==
    (phase = "returned" /\ WellTyped(post) /\ ViewsOf(post) >= 0)
        => /\ ~result.raised
           /\ result.path = "velocity" => (0 <= result.score /\ result.score <= 100)
           /\ result.score > 100 => result.path = "rank"
           /\ (result.path = "rank" /\ RankOf(post).v >= 1)
                 => (0 <= result.score /\ result.score <= 116)
           /\ (/\ post.views = PyInt(0)
               /\ post.likes = PyInt(0)
               /\ post.comments = PyInt(0)
               /\ post.rank = PyInt(1)
               /\ post.content = PyStr(HomeText))
                 => result.score = 106

\* C8 witness: the post {views 0, likes 0, comments 0, rank 1, content
\* "home"} has been scored 10.6 on the rank path.
C8_Witness ==
    /\ phase = "returned"
    /\ post.views = PyInt(0)
    /\ post.likes = PyInt(0)
    /\ post.comments = PyInt(0)
    /\ post.rank = PyInt(1)
    /\ post.content = PyStr(HomeText)
    /\ result.path = "rank"
    /\ result.score = 106

\* C9: on the velocity path each of velocity_score, engagement_score and
\* relatability_score is at most 10.
C9_Saturation ==
    (phase = "returned" /\ result.path = "velocity")
        => /\ FLe(result.velocity_score, FFromInt(10))
           /\ FLe(result.engagement_score, FFromInt(10))
           /\ result.relatability_score <= 10

\* C9 witness: a post with 10000 views in 2 hours (velocity / 100 = 50), 1050
\* interactions (rate * 100 = 10.5) and six keywords (12 points) has been
\* scored with all three components at 10.
C9_Witness ==
    /\ phase = "returned"
    /\ result.path = "velocity"
    /\ post.views = PyInt(10000)
    /\ post.likes = PyInt(1000)
    /\ post.comments = PyInt(50)
    /\ post.hours_since = PyHours(2 * HoursUnit)
    /\ MatchesOf(post) = 6
    /\ FLt(FFromInt(10), FMul(FDiv(FFromInt(1050), FFromInt(10000)), FFromInt(100)))
    /\ result.velocity_score = FFromInt(10)
    /\ result.engagement_score = FFromInt(10)
    /\ result.relatability_score = 10
    /\ result.score = 100

\* p with the hours_since h
WithHours(p, h) == [p EXCEPT !.hours_since = h]

\* C10: a post whose hours_since is below 0.5 (0 and negative values
\* included) gets the score of the same post with hours_since = 0.5, and no
\* division fails; a post without hours_since gets the score of the same
\* post with hours_since = 1.0.
C10_HoursClamped ==
    phase = "returned"
        => /\ (post.hours_since.t = "float" /\ 2 * post.hours_since.v < HoursUnit)
                 => /\ Outcome(result) =
                          Outcome(calculate_viral_score(
                                      WithHours(post, PyHours(HoursUnit \div 2))))
                    /\ WellTyped(post) => ~result.raised
           /\ post.hours_since = Absent
                 => /\ Outcome(result) =
                          Outcome(calculate_viral_score(
                                      WithHours(post, PyHours(HoursUnit))))
                    /\ WellTyped(post) => ~result.raised

\* C10 witness: a post with 100 views and hours_since = 0 has been scored
\* 1.0, from a velocity of 100 / 0.5 = 200 views an hour.
C10_Witness ==
    /\ phase = "returned"
    /\ post.hours_since = PyHours(0)
    /\ post.views = PyInt(100)
    /\ post.likes = PyInt(0)
    /\ post.comments = PyInt(0)
    /\ post.content = PyStr(EmptyText)
    /\ post.rank = Absent
    /\ result.path = "velocity"
    /\ result.hours_since = FTenths(5)
    /\ result.score = 10

(***************************************************************************)
(* Further properties of calculate_viral_score, stated for SpecScore.      *)
(***************************************************************************)
\* C11: a post with views 0, likes 0, comments 0 and no rank scores 0,
\* whatever its hours_since and its content.
C11_DeadPost ==
    (/\ phase = "returned"
     /\ WellTyped(post)
     /\ ViewsOf(post) = 0
     /\ Get(post, "likes", PyInt(0)).v = 0
     /\ Get(post, "comments", PyInt(0)).v = 0
     /\ post.rank = Absent)
        => /\ ~result.raised
           /\ result.path = "dead"
           /\ result.score = 0

\* C11 witness: a post without counts and without rank, 24 hours old, whose
\* content holds two keywords, has been scored 0.
C11_Witness ==
    /\ phase = "returned"
    /\ post.views = PyInt(0)
    /\ post.likes = PyInt(0)
    /\ post.comments = PyInt(0)
    /\ post.rank = Absent
    /\ post.hours_since = PyHours(24 * HoursUnit)
    /\ post.content = PyStr(TiredParentsText)
    /\ result.path = "dead"
    /\ result.score = 0

\* C12: a post with views 0 and likes + comments > 0 is scored as if its
\* views were (likes + comments) * 100: it gets the score of the otherwise
\* identical post whose views is (likes + comments) * 100.  A post with
\* views > 0 is scored from its own views.
C12_ViewEstimation ==
    (phase = "returned" /\ WellTyped(post))
        => /\ (ViewsOf(post) = 0 /\ InteractionsOf(post) > 0)
                 => /\ ~result.raised
                    /\ result.path = "velocity"
                    /\ result.views = InteractionsOf(post) * 100
                    /\ Outcome(result) =
                          Outcome(calculate_viral_score(
                                      WithViews(post, InteractionsOf(post) * 100)))
           /\ ViewsOf(post) > 0
                 => /\ result.path = "velocity"
                    /\ result.views = ViewsOf(post)

\* C12 witness: a post with views 0 and one like, 24 hours old, has been
\* scored 0.3 from 100 estimated views, as the same post with 100 views is.
C12_Witness ==
    /\ phase = "returned"
    /\ post.views = PyInt(0)
    /\ post.likes = PyInt(1)
    /\ post.comments = PyInt(0)
    /\ post.hours_since = PyHours(24 * HoursUnit)
    /\ post.rank = Absent
    /\ post.content = PyStr(EmptyText)
    /\ result.views = 100
    /\ result.score = 3
    /\ calculate_viral_score(WithViews(post, 100)).score = 3

\* p with the content t
WithContent(p, t) == [p EXCEPT !.content = PyStr(t)]

\* "home cooking"
HomeCookingLower ==
    <<"h", "o", "m", "e", " ", "c", "o", "o", "k", "i", "n", "g">>

\* two characters that are equal or the two cases of one letter
SameLetter(c, d) ==
    \/ c = d
    \/ \E i \in 1..Len(UpperCase) :
          {c, d} = {UpperCase[i], LowerCase[i]}

\* two strings that differ in letter case at most
SameButCase(s, t) ==
    /\ Len(s) = Len(t)
    /\ \A i \in 1..Len(s) : SameLetter(s[i], t[i])

\* C13: on both paths a keyword counts exactly when it is a substring of the
\* lower-cased content, each keyword once: the velocity path uses
\* min(2 * matches, 10), the rank path min(matches, 2).  "homey" counts for
\* "home", "Home sweet home" counts "home" once, and a post gets the score of
\* every post that differs from it in the letter case of its content only.
C13_KeywordMatching ==
    (phase = "returned" /\ WellTyped(post) /\ post.content.t = "str")
        => /\ ~result.raised
           /\ MatchesOf(post) <= Len(relatability_keywords)
           /\ result.path = "velocity"
                 => result.relatability_score = IntMin(2 * MatchesOf(post), 10)
           /\ result.path = "rank"
                 => result.score = RankFormula(RankOf(post).v, MatchesOf(post))
           /\ post.content.v \in {HomeyText, HomeSweetHomeText, HomeCookingUpper}
                 => /\ result.path = "velocity" => result.relatability_score = 2
                    /\ result.path = "rank"
                          => result.score = RankFormula(RankOf(post).v, 1)
           /\ \A t \in ContentTexts \cup {HomeCookingLower} :
                 SameButCase(t, post.content.v)
                     => Outcome(calculate_viral_score(WithContent(post, t)))
                           = Outcome(result)

\* C13 witness: the post ranked first whose content is "HOME cooking" has
\* been scored 9.6 + 1 on the rank path, as the same post with the content
\* "home cooking" is.
C13_Witness ==
    /\ phase = "returned"
    /\ post.content = PyStr(HomeCookingUpper)
    /\ post.rank = PyInt(1)
    /\ result.path = "rank"
    /\ result.score = 106
    /\ calculate_viral_score(WithContent(post, HomeCookingLower)).score = 106
    /\ SameButCase(HomeCookingLower, post.content.v)

\* min((views / h) / 100, 10)
VelocityFormula(views, h) ==
    FMin(FDiv(FDiv(FFromInt(views), h), FFromInt(100)), FFromInt(10))

\* the views values two posts are compared at
ComparedViews == {1, 100, 5000, 1000000}

\* a and b in the order of the views they come from
OrderedAs(v1, a, v2, b) ==
    /\ v1 <= v2 => FLe(a, b)
    /\ v2 <= v1 => FLe(b, a)

\* C14: velocity_score is min((views / h) / 100, 10), and with hours_since
\* held fixed it does not decrease when views grows: for views v1 <= v2, both
\* above 0, min((v1 / h) / 100, 10) <= min((v2 / h) / 100, 10).
C14_VelocityMonotone ==
    (phase = "returned" /\ result.path = "velocity")
        => /\ result.views > 0
           /\ result.velocity_score = VelocityFormula(result.views, result.hours_since)
           /\ \A v \in ComparedViews :
                 OrderedAs(result.views, result.velocity_score,
                           v, VelocityFormula(v, result.hours_since))

\* C14 witness: a post with 100 views in 2 hours has been scored with
\* velocity_score 0.5; with 5000 views it is 25 capped to 10.
C14_Witness ==
    /\ phase = "returned"
    /\ result.path = "velocity"
    /\ post.views = PyInt(100)
    /\ post.hours_since = PyHours(2 * HoursUnit)
    /\ result.velocity_score = FTenths(5)
    /\ VelocityFormula(1, result.hours_since) = FDiv(FFromInt(1), FFromInt(200))
    /\ VelocityFormula(5000, result.hours_since) = FFromInt(10)

WithOtherKeys(p, o) ==
    [p EXCEPT !.source = o.source, !.id = o.id, !.viral_score = o.viral_score]

OtherKeyValues ==
    {[source |-> Src("TikTok"), id |-> Src("mock_id_1"),
      viral_score |-> [t |-> "float", v |-> 99]],
     [source |-> PyNone, id |-> Absent, viral_score |-> Absent]}

\* C17: the outcome of calculate_viral_score depends on views, likes,
\* comments, hours_since, rank and content only: a post that agrees with the
\* scored post on these six keys and differs in source, id or viral_score
\* gets the same outcome.
C17_OnlySixFields ==
    phase = "returned"
        => \A o \in OtherKeyValues :
              Outcome(calculate_viral_score(WithOtherKeys(post, o))) = Outcome(result)

\* C17 witness: a post without source and id has been scored 10.0, as the
\* same post with a source, an id and an older viral_score of 9.9 is.
C17_Witness ==
    /\ phase = "returned"
    /\ post \in FullPosts
    /\ post.source = Absent
    /\ post.id = Absent
    /\ result.score = 100
    /\ \E o \in OtherKeyValues :
          /\ o.viral_score.t = "float"
          /\ o.viral_score.v = 99
          /\ calculate_viral_score(WithOtherKeys(post, o)).score = 100

\* x / 100 as a float: the literal with two decimals
FHundredths(x) == FDiv(FFromInt(x), FFromInt(100))

\* C18: the post {views 10000, likes 500, comments 50, hours_since 2,
\* content "easy dinner for tired parents"} has velocity_score 10,
\* engagement_score 5.5, relatability_score 4 and the weighted sum
\* 10*0.5 + 5.5*0.3 + 4*0.2 = 7.45; it scores 7.5 and meets the threshold.
C18_Scenario ==
    (phase = "returned" /\ post \in ScenarioPosts)
        => /\ ~result.raised
           /\ result.path = "velocity"
           /\ result.velocity_score = FFromInt(10)
           /\ result.engagement_score = FTenths(55)
           /\ result.relatability_score = 4
           /\ FAdd(FAdd(FMul(result.velocity_score, FTenths(5)),
                        FMul(result.engagement_score, FTenths(3))),
                   FMul(FFromInt(result.relatability_score), FTenths(2)))
                 = FHundredths(745)
           /\ result.score = 75
           /\ result.score >= VIRAL_THRESHOLD_SCORE

\* C18 witness: the scenario's post has been scored 7.5.
C18_Witness ==
    /\ phase = "returned"
    /\ post.views = PyInt(10000)
    /\ post.likes = PyInt(500)
    /\ post.comments = PyInt(50)
    /\ post.hours_since = PyHours(2 * HoursUnit)
    /\ post.content = PyStr(TiredParentsText)
    /\ post.rank = Absent
    /\ result.score = 75

(***************************************************************************)
(* Further properties of run_pipeline, stated for Spec.                    *)
(***************************************************************************)
\* all_posts[i] with the viral_score s and nothing else changed
Annotated(p, s) == [p EXCEPT !.viral_score = [t |-> "float", v |-> s]]

\* C16: a turn of the scoring loop changes one post of all_posts, and of that
\* post the key viral_score only, which it sets to calculate_viral_score of
\* the post; filtering and sorting change no post: every candidate is a post
\* of all_posts.  So after the step every collected post, candidate or not,
\* carries its score and is otherwise as it was collected.
C16_OnlyScoreAttached ==
    [][pc = "score"
          => /\ Len(all_posts') = Len(all_posts)
             /\ \A i \in 1..Len(all_posts) :
                   \/ all_posts'[i] = all_posts[i]
                   \/ /\ i = idx
                      /\ all_posts'[i] =
                            Annotated(all_posts[i],
                                      calculate_viral_score(all_posts[i]).score)
             /\ \A j \in 1..Len(viral_candidates') :
                   \E i \in 1..Len(all_posts') : viral_candidates'[j] = all_posts'[i]
             /\ pc' = "ranked"
                   => \A i \in 1..Len(all_posts') :
                         all_posts'[i].viral_score =
                            [t |-> "float",
                             v |-> calculate_viral_score(all_posts'[i]).score]]_vars

\* C16 witness: the step is over for a run that collected an Instagram post
\* (score 0, no candidate) and the YouTube post scored 7.5 (a candidate);
\* both carry their score.
C16_Witness ==
    /\ pc = "ranked"
    /\ \E i \in 1..Len(all_posts) :
          /\ all_posts[i] = Annotated(CHOOSE p \in InstagramPosts : TRUE, 0)
          /\ \A j \in 1..Len(viral_candidates) : viral_candidates[j] # all_posts[i]
    /\ \E i \in 1..Len(all_posts) :
          /\ all_posts[i].id = Src("yt_dinner")
          /\ all_posts[i].viral_score.v = calculate_viral_score(all_posts[i]).score
          /\ viral_candidates[Len(viral_candidates)] = all_posts[i]

\* C19: when the idea generation has returned at least one B2C or B2B idea,
\* run_pipeline builds the report, calls send_email_report once and reaches
\* its end; when it has returned none, it skips the report and reaches its
\* end as well.
C19_ReportThenComplete ==
    /\ (pc = "report" /\ HasIdeas(content_ideas_data))
          ~> (pc = "done" /\ html_report = "built" /\ emails_sent = 1)
    /\ (pc = "report" /\ ~HasIdeas(content_ideas_data))
          ~> (pc = "done" /\ html_report = "none" /\ emails_sent = 0)

\* C19 witness: a run whose idea generation returned one B2C idea has ended
\* in build_html_report with NameError, no report built and no email sent.
C19_Witness ==
    /\ pc = "crashed"
    /\ error = [exc |-> "NameError", at |-> "report"]
    /\ content_ideas_data = Ideas(1, 0)
    /\ html_report = "none"
    /\ emails_sent = 0

\* C20: a failure on one item does not end the run: no run ends in the
\* scoring loop, and past that loop every collected post carries a score.
C20_FailureSkipped ==
    /\ error.at # "score"
    /\ pc \notin {"youtube", "tiktok", "instagram", "reddit", "score"}
          => \A i \in 1..Len(all_posts) : all_posts[i].viral_score.t = "float"

\* C20 witness: the run has ended with TypeError at the YouTube post whose
\* likes is None; the posts behind it were never scored and no later step
\* was taken.
C20_Witness ==
    /\ pc = "crashed"
    /\ error = [exc |-> "TypeError", at |-> "score"]
    /\ idx < Len(all_posts)
    /\ all_posts[idx].id = Src("yt_flat")
    /\ \A i \in idx..Len(all_posts) : all_posts[i].viral_score = Absent
    /\ viral_candidates = << >>
    /\ content_ideas_data = NoIdeas

(***************************************************************************)
(* The Database object of db.py: its methods called one at a time on the   *)
(* content_ideas table.  The clock counts days.                            *)
(***************************************************************************)
\* title[:255]
TitleLimit == 255

\* timedelta(days=14)
DedupDays == 14

MaxRows == 3
MaxDay == 21

\* the days that pass between two calls
Elapsed == {0, 7, 14}

\* str.strip() of a string of letters and blanks
StrStrip(s) ==
    IF \A i \in 1..Len(s) : s[i] = " "
    THEN << >>
    ELSE SubSeq(s,
                CHOOSE i \in 1..Len(s) :
                    s[i] # " " /\ \A k \in 1..(i - 1) : s[k] = " ",
                CHOOSE j \in 1..Len(s) :
                    s[j] # " " /\ \A k \in (j + 1)..Len(s) : s[k] = " ")

\* s[:n]
Truncate(s, n) == SubSeq(s, 1, IntMin(Len(s), n))

\* title ILIKE pattern from position i of the title and j of the pattern:
\* % stands for any run of characters, _ for any one character, and a letter
\* matches in either case
RECURSIVE ILikeAt(_, _, _, _)
ILikeAt(title, pattern, i, j) ==
    IF j > Len(pattern)
    THEN i > Len(title)
    ELSE IF pattern[j] = "%"
         THEN \/ ILikeAt(title, pattern, i, j + 1)
              \/ i <= Len(title) /\ ILikeAt(title, pattern, i + 1, j)
         ELSE /\ i <= Len(title)
              /\ pattern[j] = "_" \/ CharLower(title[i]) = CharLower(pattern[j])
              /\ ILikeAt(title, pattern, i + 1, j + 1)

\* .ilike("title", title): a pattern without % and _ matches the titles
\* of its length that have its letters
ILike(title, pattern) ==
    IF \E j \in 1..Len(pattern) : pattern[j] \in {"%", "_"}
    THEN ILikeAt(title, pattern, 1, 1)
    ELSE /\ Len(title) = Len(pattern)
         /\ \A i \in 1..Len(title) : CharLower(title[i]) = CharLower(pattern[i])

\* lines 56-64: the rows of the last 14 days whose title is like the given one
Existing(title, today) ==
    {i \in 1..Len(content_ideas) :
        /\ ILike(content_ideas[i].title, title)
        /\ content_ideas[i].created_at >= today - DedupDays}

\* lines 88-102: the row inserted
IdeaRow(title, today) ==
    [title |-> Truncate(title, TitleLimit),
     created_at |-> today,
     week_number |-> today \div 7]

Skipped(idea, today) ==
    /\ content_ideas' = content_ideas
    /\ db_call' = DbCall("save_content_idea", idea, "None", Len(content_ideas))

Inserted(idea, title, today) ==
    /\ content_ideas' = Append(content_ideas, IdeaRow(title, today))
    /\ db_call' = DbCall("save_content_idea", idea, "result", Len(content_ideas))

\* lines 50-104 with the stripped title: no title, a failing request, a
\* duplicate, or the insert
SaveTitle(idea, title, today, backend_ok) ==
    IF title = << >> \/ ~backend_ok \/ Existing(title, today) # {}
    THEN Skipped(idea, today)
    ELSE Inserted(idea, title, today)

\* save_content_idea(idea, target_audience) at the day the clock shows; a
\* title that is no string raises in strip(), which the handler catches
SaveContentIdea(idea, today, backend_ok) ==
    /\ now' = today
    /\ IF ~db_client \/ Get(idea, "title", PyStr(EmptyText)).t # "str"
       THEN Skipped(idea, today)
       ELSE SaveTitle(idea, StrStrip(Get(idea, "title", PyStr(EmptyText)).v),
                      today, backend_ok)

SoupText ==
    <<"S", "o", "u", "p">>

SoupUpperSpaced ==
    <<" ", "S", "O", "U", "P", " ">>

SoupPattern ==
    <<"S", "%", "p">>

BlankText ==
    <<" ", " ">>

\* a title of 256 characters
LongTitle == [i \in 1..(TitleLimit + 1) |-> "a"]

IdeaTitles ==
    {PyStr(t) : t \in {SoupText, SoupUpperSpaced, SoupPattern, BlankText,
                       EmptyText, LongTitle}}
        \cup {Absent, PyNone}

IdeaInputs == {[title |-> t] : t \in IdeaTitles}

save_content_idea ==
    /\ Len(content_ideas) < MaxRows
    /\ \E idea \in IdeaInputs, d \in Elapsed, backend_ok \in BOOLEAN :
          /\ now + d <= MaxDay
          /\ SaveContentIdea(idea, now + d, backend_ok)
    /\ UNCHANGED <<all_posts, viral_candidates, idx, pc, callVars, ideaVars,
                   error, posts_summary, analyze_calls, researchVars>>

\* a method that leaves content_ideas as it is returns
DbReturns(method, ret) ==
    /\ db_call' = DbCall(method, [title |-> Absent], ret, Len(content_ideas))
    /\ UNCHANGED <<content_ideas, now>>
    /\ UNCHANGED <<all_posts, viral_candidates, idx, pc, callVars, ideaVars,
                   error, posts_summary, analyze_calls, researchVars>>

\* save_trend(trend_data): None without a client and when the insert raises
save_trend ==
    \E backend_ok \in BOOLEAN :
        DbReturns("save_trend", IF db_client /\ backend_ok THEN "data" ELSE "None")

\* save_event(event): None without a client and when the upsert raises
save_event ==
    \E backend_ok \in BOOLEAN :
        DbReturns("save_event", IF db_client /\ backend_ok THEN "result" ELSE "None")

\* save_global_trend(trend_data, analysis_json): None without a client,
\* "duplicate" when the insert meets the unique constraint, None when it
\* raises anything else
save_global_trend ==
    \E outcome \in {"result", "duplicate", "None"} :
        DbReturns("save_global_trend", IF db_client THEN outcome ELSE "None")

\* the rows of content_ideas of the week of the clock
RowsThisWeek ==
    {i \in 1..Len(content_ideas) : content_ideas[i].week_number = now \div 7}

\* get_top_ideas_this_week(limit): [] without a client and when the select
\* raises, else result.data
get_top_ideas_this_week ==
    \E backend_ok \in BOOLEAN :
        DbReturns("get_top_ideas_this_week",
                  IF db_client /\ backend_ok /\ RowsThisWeek # {}
                  THEN "rows" ELSE "[]")

\* get_upcoming_events(days_ahead): [] without a client and when the select
\* raises, else the events the table holds for the next days
get_upcoming_events ==
    \E backend_ok \in BOOLEAN, found \in BOOLEAN :
        DbReturns("get_upcoming_events",
                  IF db_client /\ backend_ok /\ found THEN "rows" ELSE "[]")

InitDb ==
    /\ post = NoPost
    /\ result = NoResult
    /\ phase = "idle"
    /\ all_posts = << >>
    /\ viral_candidates = << >>
    /\ idx = 1
    /\ pc = "idle"
    /\ db_client \in BOOLEAN
    /\ content_ideas_data = NoIdeas
    /\ saved_count = 0
    /\ html_report = "none"
    /\ emails_sent = 0
    /\ error = NoError
    /\ posts_summary = << >>
    /\ analyze_calls = 0
    /\ content_ideas = << >>
    /\ now = 0
    /\ db_call = NoCall
    /\ rpc = "idle"
    /\ temp_downloads = NoDirectory
    /\ candidates = << >>
    /\ processed = << >>

NextDb ==
    \/ save_content_idea
    \/ save_trend
    \/ save_event
    \/ save_global_trend
    \/ get_top_ideas_this_week
    \/ get_upcoming_events

SpecDb == InitDb /\ [][NextDb]_vars

(***************************************************************************)
(* run_global_researcher: the scraper downloads the videos into the        *)
(* directory temp_downloads, every candidate is analysed and its file      *)
(* removed, and the directory is removed at the end.  A file is named by   *)
(* the id of its video.                                                    *)
(***************************************************************************)
MaxVideos == 2

VideoIds == {"a", "b"}

\* a file a download left behind that is no video of a candidate
OtherFiles == {"c.webm"}

\* the candidate lists fetch_youtube_shorts can return
CandidateLists ==
    UNION {[1..n -> VideoIds] : n \in 0..MaxVideos}

FilesOf(videos) == {videos[i] : i \in 1..Len(videos)}

researcherStill ==
    UNCHANGED <<all_posts, viral_candidates, idx, pc, callVars, ideaVars,
                error, posts_summary, analyze_calls, dbVars>>

\* scraper = GlobalViralityScraper(): the directory is made unless it exists
GlobalViralityScraper ==
    /\ rpc = "start"
    /\ temp_downloads' = Directory(TRUE, temp_downloads.files)
    /\ rpc' = "analyzer"
    /\ UNCHANGED <<candidates, processed>>
    /\ researcherStill

\* lines 29-33: analyzer = MultimodalAnalyzer(), and the return when it raises
MultimodalAnalyzer ==
    /\ rpc = "analyzer"
    /\ \E raised \in BOOLEAN :
          rpc' = IF raised THEN "analyzer_failed" ELSE "fetch"
    /\ UNCHANGED <<temp_downloads, candidates, processed>>
    /\ researcherStill

\* lines 37-41: fetch_youtube_shorts downloads the file of every candidate
\* and may leave other files; the run returns when there is no candidate
fetch_youtube_shorts ==
    /\ rpc = "fetch"
    /\ \E videos \in CandidateLists, others \in SUBSET OtherFiles :
          /\ candidates' = videos
          /\ temp_downloads' =
                Directory(TRUE, temp_downloads.files \cup FilesOf(videos) \cup others)
          /\ rpc' = IF videos = << >> THEN "no_candidates" ELSE "loop"
    /\ UNCHANGED processed
    /\ researcherStill

AnalysisOutcomes == {"saved", "empty", "raised"}

\* lines 73-79: os.remove(video_path)
RemoveFile(dir, video) == Directory(dir.exists, dir.files \ {video})

\* lines 48-79: one turn of the loop; a candidate whose file is missing is
\* skipped, any other is analysed and its file removed whatever happened
ProcessVideo ==
    /\ rpc = "loop"
    /\ Len(processed) < Len(candidates)
    /\ IF candidates[Len(processed) + 1] \in temp_downloads.files
       THEN /\ \E outcome \in AnalysisOutcomes :
                  processed' = Append(processed, outcome)
            /\ temp_downloads' =
                  RemoveFile(temp_downloads, candidates[Len(processed) + 1])
       ELSE /\ processed' = Append(processed, "missing")
            /\ temp_downloads' = temp_downloads
    /\ UNCHANGED <<rpc, candidates>>
    /\ researcherStill

\* lines 82-86 and cleanup(): every file of the directory and the directory
\* are removed
cleanup ==
    /\ rpc = "loop"
    /\ Len(processed) = Len(candidates)
    /\ temp_downloads' = NoDirectory
    /\ rpc' = "complete"
    /\ UNCHANGED <<candidates, processed>>
    /\ researcherStill

\* the run has returned
ResearcherEnded == rpc \in {"analyzer_failed", "no_candidates", "complete"}

InitResearcher ==
    /\ post = NoPost
    /\ result = NoResult
    /\ phase = "idle"
    /\ all_posts = << >>
    /\ viral_candidates = << >>
    /\ idx = 1
    /\ pc = "idle"
    /\ db_client \in BOOLEAN
    /\ content_ideas_data = NoIdeas
    /\ saved_count = 0
    /\ html_report = "none"
    /\ emails_sent = 0
    /\ error = NoError
    /\ posts_summary = << >>
    /\ analyze_calls = 0
    /\ content_ideas = << >>
    /\ now = 0
    /\ db_call = NoCall
    /\ rpc = "start"
    /\ temp_downloads \in {NoDirectory} \cup {Directory(TRUE, f) : f \in SUBSET OtherFiles}
    /\ candidates = << >>
    /\ processed = << >>

NextResearcher ==
    \/ GlobalViralityScraper
    \/ MultimodalAnalyzer
    \/ fetch_youtube_shorts
    \/ ProcessVideo
    \/ cleanup

SpecResearcher == InitResearcher /\ [][NextResearcher]_vars

(***************************************************************************)
(* Properties of the idea generation, stated for SpecAnalyze.              *)
(***************************************************************************)
\* the analysis has built its summary
Summarised == pc = "save" /\ (posts_summary # << >> \/ content_ideas_data # NoIdeas)

NumScored ==
    Cardinality({i \in 1..Len(all_posts) : all_posts[i].viral_score # Absent})

\* C22: a post is collected only while no post is scored; the candidates
\* are sorted only when every collected post is scored; the idea generation
\* is called at most once, after the sort, with a non-empty candidate list;
\* a save or an email happens only after that call, so with an empty
\* candidate list there is no idea generation, no save and no email.
C22_OrderingAndGating ==
    [][/\ Len(all_posts') > Len(all_posts)
            => NumScored = 0 /\ viral_candidates = << >>
       /\ NumScored' > NumScored
            => pc = "score" /\ Len(all_posts') = Len(all_posts)
       /\ (pc = "score" /\ pc' = "ranked")
            => NumScored = Len(all_posts)
       /\ analyze_calls' # analyze_calls
            => /\ analyze_calls = 0
               /\ analyze_calls' = 1
               /\ pc = "analyze"
               /\ viral_candidates # << >>
               /\ NumScored = Len(all_posts)
       /\ (saved_count' # saved_count \/ emails_sent' # emails_sent)
            => /\ analyze_calls = 1
               /\ viral_candidates # << >>
               /\ pc \in {"save", "report"}
       /\ (viral_candidates = << >> /\ pc \in {"analyze", "save", "report"})
            => /\ analyze_calls' = 0
               /\ saved_count' = 0
               /\ emails_sent' = 0
               /\ posts_summary' = << >>]_vars

\* C22 witness: the run has collected and scored its posts, sorted the
\* candidates, called the idea generation once and then saved an idea.
C22_Witness ==
    /\ pc = "report"
    /\ Len(all_posts) > 1
    /\ NumScored = Len(all_posts)
    /\ viral_candidates # << >>
    /\ analyze_calls = 1
    /\ saved_count > 0

\* C22 witness of the gate: the run has passed the analysis step with an
\* empty candidate list, and nothing was called.
C22_WitnessEmpty ==
    /\ pc = "done"
    /\ all_posts # << >>
    /\ viral_candidates = << >>
    /\ analyze_calls = 0
    /\ saved_count = 0
    /\ emails_sent = 0

(***************************************************************************)
(* Properties of the Database methods, stated for SpecDb.                  *)
(***************************************************************************)
\* two titles equal ignoring case
EqualIgnoringCase(a, b) == StrLower(a) = StrLower(b)

\* the rows of content_ideas before the last call
RowsBefore == SubSeq(content_ideas, 1, db_call.rows_before)

\* the title handed to the last call of save_content_idea
CallTitle == Get(db_call.arg, "title", PyStr(EmptyText))

\* C23 as stated: content_ideas never holds two rows with titles equal
\* ignoring case created within 14 days of each other; a call whose title
\* matches such a row inserts nothing and returns None; a call with an empty
\* or whitespace-only title inserts nothing.
C23_Deduplicated ==
    /\ \A i, j \in 1..Len(content_ideas) :
          (i < j /\ EqualIgnoringCase(content_ideas[i].title, content_ideas[j].title))
              => content_ideas[j].created_at - content_ideas[i].created_at > 14
    /\ (/\ db_call.method = "save_content_idea"
        /\ CallTitle.t = "str"
        /\ \E i \in 1..Len(RowsBefore) :
              /\ EqualIgnoringCase(RowsBefore[i].title, StrStrip(CallTitle.v))
              /\ now - RowsBefore[i].created_at <= 14)
          => db_call.ret = "None" /\ content_ideas = RowsBefore
    /\ (/\ db_call.method = "save_content_idea"
        /\ CallTitle.t = "str"
        /\ \A k \in 1..Len(CallTitle.v) : CallTitle.v[k] = " ")
          => content_ideas = RowsBefore

\* C23 for the rows whose title is shorter than 255 characters: no two of
\* them have titles equal ignoring case and were created within 14 days of
\* each other.
C23_DeduplicatedBelowLimit ==
    \A i, j \in 1..Len(content_ideas) :
        (/\ i < j
         /\ Len(content_ideas[i].title) < TitleLimit
         /\ EqualIgnoringCase(content_ideas[i].title, content_ideas[j].title))
            => content_ideas[j].created_at - content_ideas[i].created_at > 14

\* C23 witness: the same title of 256 characters was saved twice on one day,
\* and content_ideas holds two rows with the same title.
C23_Witness ==
    /\ db_call.method = "save_content_idea"
    /\ db_call.arg.title = PyStr(LongTitle)
    /\ db_call.ret = "result"
    /\ Len(content_ideas) = 2
    /\ content_ideas[1].title = content_ideas[2].title
    /\ content_ideas[1].created_at = content_ideas[2].created_at

(***************************************************************************)
(* Properties of run_global_researcher, stated for SpecResearcher.         *)
(***************************************************************************)
\* C24 as stated: the file of every candidate processed is gone from
\* temp_downloads, whether its analysis was saved, returned nothing or
\* raised; and when the run has ended, by the failure of the analyzer, for
\* want of candidates or normally, temp_downloads is emptied and removed.
C24_TempFilesCleaned ==
    /\ \A k \in 1..Len(processed) : candidates[k] \notin temp_downloads.files
    /\ ResearcherEnded => temp_downloads = NoDirectory

\* C24, the part that holds: the file of every candidate processed is gone,
\* and at the normal end of the run temp_downloads is emptied and removed.
C24_CleanedWhenComplete ==
    /\ \A k \in 1..Len(processed) : candidates[k] \notin temp_downloads.files
    /\ rpc = "complete" => temp_downloads = NoDirectory

\* C24 witness: the analyzer failed to initialise and the run has returned;
\* the directory the scraper made is still there.
C24_Witness ==
    /\ rpc = "analyzer_failed"
    /\ temp_downloads.exists

\* C24 witness of the second early return: no candidate was found and the
\* run has returned; the directory and a file downloaded into it remain.
C24_WitnessNoCandidates ==
    /\ rpc = "no_candidates"
    /\ temp_downloads = Directory(TRUE, {"c.webm"})

(***************************************************************************)
(* The database as an option of run_pipeline, stated for Spec and SpecDb.  *)
(***************************************************************************)
\* the run of run_pipeline has ended past the scoring loop
EndedPastScoring == pc \in {"done", "crashed"} /\ error.at # "score"

\* C25 as stated: without a database client no save reaches the backend,
\* and the run still goes on to the report and the email: when it has ended
\* with ideas generated, the report is built and the email sent.
C25_DatabaseOptional ==
    ~db_client
        => /\ saved_count = 0
           /\ content_ideas = << >>
           /\ (EndedPastScoring /\ HasIdeas(content_ideas_data))
                 => html_report = "built" /\ emails_sent = 1

\* C25, the part about the run that holds: without a database client no
\* save reaches the backend, and a run that ends past the scoring loop ends
\* at the report step.
C25_NoSaveWithoutClient ==
    ~db_client
        => /\ saved_count = 0
           /\ content_ideas = << >>
           /\ EndedPastScoring => (pc = "done" \/ error.at = "report")

\* C25, the part about the Database methods, for SpecDb: without a client
\* every save method returns None, every get method returns an empty list
\* and content_ideas stays empty.
C25_MethodsWithoutClient ==
    ~db_client
        => /\ content_ideas = << >>
           /\ db_call.method \in {"save_trend", "save_content_idea", "save_event",
                                  "save_global_trend"}
                 => db_call.ret = "None"
           /\ db_call.method \in {"get_top_ideas_this_week", "get_upcoming_events"}
                 => db_call.ret = "[]"

\* C25 witness: without a database client the run has generated ideas,
\* saved nothing, reached the report step and ended there in the NameError
\* of build_html_report; no email was sent.
C25_Witness ==
    /\ ~db_client
    /\ HasIdeas(content_ideas_data)
    /\ saved_count = 0
    /\ pc = "crashed"
    /\ error = [exc |-> "NameError", at |-> "report"]
    /\ emails_sent = 0

(***************************************************************************)
(* The mock posts of get_tiktok_posts in run_pipeline, stated for Spec.    *)
(***************************************************************************)
\* the posts of a list that have the given id
WithId(posts, id) == SelectSeq(posts, LAMBDA p : p.id = Src(id))

\* the run is past the scoring loop and has not ended in it
PastScoring ==
    \/ pc \in {"ranked", "analyze", "save", "report", "done"}
    \/ pc = "crashed" /\ error.at = "report"

\* C26: a fetch of get_tiktok_posts that fails or yields no item returns
\* the two mock posts, never the empty list; a scored mock post carries 8.4
\* (mock_id_1) or 8.0 (mock_id_2); and once run_pipeline has scored its
\* posts, every mock post collected is among the viral candidates, two for
\* every failed hashtag call.
C26_MockFallback ==
    /\ \A f \in TikTokFailures :
          /\ get_tiktok_posts(TikTokFetch(f, << >>)) = TikTokMockPosts
          /\ Len(get_tiktok_posts(TikTokFetch(f, << >>))) = 2
    /\ \A i \in 1..Len(all_posts) :
          all_posts[i].viral_score # Absent
              => /\ all_posts[i].id = Src("mock_id_1")
                      => all_posts[i].viral_score = PyScore(84)
                 /\ all_posts[i].id = Src("mock_id_2")
                      => all_posts[i].viral_score = PyScore(80)
    /\ Len(WithId(all_posts, "mock_id_1")) = Len(WithId(all_posts, "mock_id_2"))
    /\ PastScoring
          => /\ WithId(viral_candidates, "mock_id_1") = WithId(all_posts, "mock_id_1")
             /\ WithId(viral_candidates, "mock_id_2") = WithId(all_posts, "mock_id_2")

\* C26 witness: both TikTok hashtag calls failed, and the idea generation
\* is handed four mock posts among its candidates, scored 8.4 and 8.0.
C26_Witness ==
    /\ pc = "analyze"
    /\ Len(WithId(viral_candidates, "mock_id_1")) = 2
    /\ Len(WithId(viral_candidates, "mock_id_2")) = 2
    /\ viral_candidates[1].viral_score = PyScore(84)
    /\ viral_candidates[4].viral_score = PyScore(80)

(***************************************************************************)
(* Properties of calculate_viral_score on estimated views and on ranks,    *)
(* stated for SpecScore.                                                   *)
(***************************************************************************)
\* round(0.5*min(interactions/h, 10) + 0.3 + 0.2*min(2*m, 10), 1), in tenths
EstimationFormula(interactions, h, m) ==
    FRound1(FAdd(FAdd(FMul(FTenths(5),
                           FMin(FDiv(FFromInt(interactions), h), FFromInt(10))),
                      FTenths(3)),
                 FMul(FTenths(2), FFromInt(IntMin(2 * m, 10)))))

C28_InstagramNeverViral ==
    /\ \A i \in 1..Len(all_posts) :
          all_posts[i].source = Src("Instagram")
              => /\ all_posts[i].views = PyInt(0)
                 /\ all_posts[i].likes = PyInt(0)
                 /\ all_posts[i].comments = PyInt(0)
                 /\ all_posts[i].rank = Absent
                 /\ all_posts[i].viral_score \in {Absent, PyScore(0)}
    /\ \A j \in 1..Len(viral_candidates) :
          viral_candidates[j].source # Src("Instagram")

\* C28 witness: the run has collected and scored an Instagram post whose
\* content holds the keyword "home"; its score is 0 and it is no candidate,
\* while another post is.
C28_Witness ==
    /\ pc = "ranked"
    /\ viral_candidates # << >>
    /\ \E i \in 1..Len(all_posts) :
          /\ all_posts[i].source = Src("Instagram")
          /\ all_posts[i].content = PyStr(InstagramHomeText)
          /\ all_posts[i].viral_score = PyScore(0)

(***************************************************************************)
(* Properties of the rank path, stated for SpecRank.                       *)
(***************************************************************************)
\* the post without its rank key
WithoutRank(p) == [p EXCEPT !.rank = Absent]

\* C29: a post with views, likes and comments 0 and rank 0 does not take
\* the rank path and scores 0, as the same post without rank does; and a
\* post takes the rank path exactly when its views are 0 after the
\* estimation (views 0 and no interactions) and its rank is not 0.
C29_RankZeroAsAbsent ==
    phase = "returned"
        => /\ ~result.raised
           /\ (ViewsOf(post) = 0 /\ InteractionsOf(post) = 0 /\ post.rank = PyInt(0))
                 => /\ result.path = "dead"
                    /\ result.score = 0
                    /\ Outcome(result) = Outcome(calculate_viral_score(WithoutRank(post)))
           /\ result.path = "rank"
                 <=> /\ ViewsOf(post) = 0
                     /\ InteractionsOf(post) = 0
                     /\ post.rank.t = "int"
                     /\ post.rank.v # 0

\* C29 witness: a post with views, likes and comments 0, rank 0 and six
\* keywords has been scored 0, not by its rank.
C29_Witness ==
    /\ phase = "returned"
    /\ post.views = PyInt(0)
    /\ post.likes = PyInt(0)
    /\ post.comments = PyInt(0)
    /\ post.rank = PyInt(0)
    /\ post.content = PyStr(SixKeywordText)
    /\ result.path = "dead"
    /\ result.score = 0

\* C29 witness of the other side: a post with rank -1 and no counts has
\* been scored on the rank path, 10.4.
C29_WitnessNegativeRank ==
    /\ phase = "returned"
    /\ post.rank = PyInt(0 - 1)
    /\ post.content = PyStr(EmptyText)
    /\ result.path = "rank"
    /\ result.score = 104

\* C30: of the posts scored on the rank path, with the threshold 7.5, one
\* with rank 1 to 6 is a candidate; one with rank 7 or 8 is a candidate
\* exactly when at least one keyword matches; one with rank 9 to 11 exactly
\* when at least two match; one with rank 12 or higher never is.
C30_RankCandidates ==
    (phase = "returned" /\ result.path = "rank" /\ post.rank.v >= 1)
        => /\ post.rank.v \in 1..6 => IsViral(result.score)
           /\ post.rank.v \in 7..8
                 => (IsViral(result.score) <=> MatchesOf(post) >= 1)
           /\ post.rank.v \in 9..11
                 => (IsViral(result.score) <=> MatchesOf(post) >= 2)
           /\ post.rank.v >= 12 => ~IsViral(result.score)

\* C30 witness: a post ranked 9 with one keyword has been scored 7.4 and is
\* no candidate.
C30_Witness ==
    /\ phase = "returned"
    /\ result.path = "rank"
    /\ post.rank = PyInt(9)
    /\ post.content = PyStr(HomeText)
    /\ result.score = 74
    /\ ~IsViral(result.score)

\* C30 witness at the upper edge: a post ranked 11 with two keywords has
\* been scored 7.6 and is a candidate.
C30_WitnessRankEleven ==
    /\ phase = "returned"
    /\ post.rank = PyInt(11)
    /\ post.content = PyStr(TiredParentsText)
    /\ result.score = 76
    /\ IsViral(result.score)

====
